---- MODULE Spec2Model ----
(***************************************************************************)
(* A model of maragudk/migrate (migrate.go): the Migrator with its         *)
(* operations MigrateUp, MigrateDown and MigrateTo, the version table, the *)
(* file name matchers and the transactional apply of one script.           *)
(*                                                                         *)
(* Strings are sequences of one-character strings, compared byte-wise as   *)
(* Go compares strings.  One public operation is one action; the faults    *)
(* of the collaborators (database, file system, callbacks) are an input of *)
(* the action.  A second specification, SpecConcurrent, runs calls of       *)
(* MigrateUp at the same time, one transaction or query of a call at a     *)
(* step.                                                                   *)
(***************************************************************************)
EXTENDS Integers, Sequences, FiniteSets, TLC

VARIABLES
    fsys,   \* the provider: the listing of its root that fs.ReadDir returns
    m,      \* the Migrator's options: before / after callback configured
    db,     \* the database: version table and the effects of the scripts
    last,   \* record of the operation that has run and not yet returned
    prev,   \* the operation that returned last, when it is one that the
            \* next one builds on: a MigrateUp that succeeded, or one that
            \* failed at a script, with the up scripts from that one on
    running \* the calls of MigrateUp that run at the same time, each with
            \* its place in the code and its local variables; none where
            \* one caller runs one operation after the other

vars == <<fsys, m, db, last, prev, running>>

----------------------------------------------------------------------------
(* Strings *)

Digits == {"1", "2", "3"}

Letters ==
    {"a", "b", "c", "d", "e", "g", "h", "i", "k", "l", "m", "n", "o", "p", "q",
     "r", "s", "t", "u", "w", "x", "y"}

\* The byte value of a character (ASCII).
Code(c) ==
    CASE c = "+" -> 43 [] c = "-" -> 45 [] c = "." -> 46
      [] c = "1" -> 49 [] c = "2" -> 50 [] c = "3" -> 51
      [] c = "_" -> 95
      [] c = "a" -> 97 [] c = "b" -> 98 [] c = "c" -> 99
      [] c = "d" -> 100 [] c = "e" -> 101 [] c = "g" -> 103
      [] c = "h" -> 104 [] c = "i" -> 105 [] c = "k" -> 107
      [] c = "l" -> 108 [] c = "m" -> 109 [] c = "n" -> 110
      [] c = "o" -> 111 [] c = "p" -> 112 [] c = "q" -> 113
      [] c = "r" -> 114 [] c = "s" -> 115 [] c = "t" -> 116
      [] c = "u" -> 117 [] c = "w" -> 119 [] c = "x" -> 120
      [] c = "y" -> 121

Min(a, b) == IF a < b THEN a ELSE b

\* Go's < on strings: byte-wise lexicographic.
Less(s, t) ==
    \/ /\ Len(s) < Len(t)
       /\ \A i \in 1..Len(s) : s[i] = t[i]
    \/ \E i \in 1..Min(Len(s), Len(t)) :
          /\ \A j \in 1..(i - 1) : s[j] = t[j]
          /\ Code(s[i]) < Code(t[i])

Leq(s, t) == s = t \/ Less(s, t)

Greater(s, t) == Less(t, s)

Slice(s, a, b) == [i \in 1..(b - a + 1) |-> s[a + i - 1]]

\* The regexp class [\w-].
IsVersionChar(c) == c \in Digits \cup Letters \cup {"_", "-"}

\* The regexp class [\w.].
IsTableChar(c) == c \in Digits \cup Letters \cup {"_", "."}

----------------------------------------------------------------------------
(* The matchers *)

\* tableMatcher.MatchString: ^[\w.]+$
TableMatches(table) ==
    /\ Len(table) >= 1
    /\ \A i \in 1..Len(table) : IsTableChar(table[i])

upMatcher == "up"

downMatcher == "down"

\* ^([\w-]+).up.sql$ : the group, any character, "up", any character, "sql",
\* then the end of the name.  The value is the length of the group, 0 when
\* the name does not match.
UpGroupLen(name) ==
    LET k == Len(name) - 7
    IN  IF /\ k >= 1
           /\ \A i \in 1..k : IsVersionChar(name[i])
           /\ name[k + 2] = "u" /\ name[k + 3] = "p"
           /\ name[k + 5] = "s" /\ name[k + 6] = "q" /\ name[k + 7] = "l"
        THEN k ELSE 0

\* ^([\w-]+).down.sql : as above with "down" and no anchor at the end; the
\* group is greedy, so it is the longest one that lets the rest match.
DownGroupOk(name, k) ==
    /\ k >= 1
    /\ Len(name) >= k + 9
    /\ \A i \in 1..k : IsVersionChar(name[i])
    /\ name[k + 2] = "d" /\ name[k + 3] = "o"
    /\ name[k + 4] = "w" /\ name[k + 5] = "n"
    /\ name[k + 7] = "s" /\ name[k + 8] = "q" /\ name[k + 9] = "l"

DownGroupLen(name) ==
    LET ks == {k \in 1..Len(name) : DownGroupOk(name, k)}
    IN  IF ks = {} THEN 0 ELSE CHOOSE k \in ks : \A j \in ks : j <= k

GroupLen(matcher, name) ==
    IF matcher = upMatcher THEN UpGroupLen(name) ELSE DownGroupLen(name)

\* regexp.MatchString
MatchString(matcher, name) == GroupLen(matcher, name) > 0

\* regexp.ReplaceAllString(name, "$1"): the matched text is replaced by the
\* group, the text after the match is kept.
ReplaceAllString(matcher, name) ==
    LET k == GroupLen(matcher, name)
        matchEnd == IF matcher = upMatcher THEN k + 7 ELSE k + 9
    IN  IF k = 0 THEN name
        ELSE Slice(name, 1, k) \o Slice(name, matchEnd + 1, Len(name))

----------------------------------------------------------------------------
(* File names and the provider *)

DotUpSql == <<".", "u", "p", ".", "s", "q", "l">>

DotDownSql == <<".", "d", "o", "w", "n", ".", "s", "q", "l">>

Empty == << >>

V1 == <<"1">>

V2 == <<"2">>

V3 == <<"3">>

V1a == <<"1", "-", "a">>

Vx == <<"x">>

UpName(v) == v \o DotUpSql

DownName(v) == v \o DotDownSql

\* testdata/good of the tests: versions 1, 2, 3 in both directions.
GoodDir == {UpName(V1), DownName(V1), UpName(V2), DownName(V2),
            UpName(V3), DownName(V3)}

\* Two versions of which one is the other followed by a hyphen.
HyphenDir == {UpName(V1), DownName(V1), UpName(V1a), DownName(V1a)}

\* The latest version has no down script.
NoDownDir == {UpName(V1), DownName(V1), UpName(V2)}

\* Names around the edges of the patterns, and a file that is no script.
LooseDir == {UpName(V1), DownName(V1), DownName(V1) \o <<".", "b", "a", "k">>,
             <<"1", "_", "u", "p", ".", "s", "q", "l">>,
             <<"a", ".", "s", "q", "l">>}

\* A copy of a down script, kept under a longer name, before the scripts
\* of a later version.
BackupDir == {DownName(V1) \o <<".", "b", "a", "k">>, UpName(V2), DownName(V2)}

Dirs == {{}, GoodDir, HyphenDir, NoDownDir, LooseDir, BackupDir}

\* fs.ReadDir returns the entries sorted by file name.
RECURSIVE ReadDir(_)
ReadDir(dir) ==
    IF dir = {} THEN << >>
    ELSE LET first == CHOOSE n \in dir : \A o \in dir : Leq(n, o)
         IN  <<first>> \o ReadDir(dir \ {first})

\* The versions MigrateTo is called with: those of the scripts, the empty
\* string and one that no script has.
Targets == {Empty, V1, V2, V3, V1a, Vx}

----------------------------------------------------------------------------
(* Faults of the collaborators *)

\* The number of transactions of one operation that a fault can be put in.
MaxFaultAt == 2

\* A fault names the transaction of the operation it hits (0: the one of
\* createMigrationsTable, i: the one of the i-th apply) and the step there;
\* "query" is the version query and "readdir" the directory listing.
TablePhases == {"begin", "create", "exists", "insert", "commit", "query", "readdir"}

ApplyPhases == {"readfile", "begin", "before", "update", "exec", "after", "commit"}

\* The steps that run inside a transaction; a failure of one of them makes
\* inTransaction roll back, and the rollback can fail in its turn.
RollbackPhases == {"create", "exists", "insert", "before", "update", "exec", "after"}

\* The steps of the callback of apply: one of them can panic in place of
\* returning an error.
PanicPhases == {"before", "update", "exec", "after"}

Fault(at, phase) ==
    [at |-> at, phase |-> phase, rollback |-> FALSE, panic |-> FALSE]

NoFault == Fault(0, "none")

Faults ==
    LET plain == {NoFault}
                 \cup {Fault(0, p) : p \in TablePhases}
                 \cup {Fault(k, p) : k \in 1..MaxFaultAt, p \in ApplyPhases}
    IN  plain \cup {[f EXCEPT !.rollback = TRUE] :
                       f \in {g \in plain : g.phase \in RollbackPhases}}
              \cup {[f EXCEPT !.panic = TRUE] :
                       f \in {g \in plain : g.phase \in PanicPhases}}

Hits(f, k, p) == f.at = k /\ f.phase = p

----------------------------------------------------------------------------
(* The database *)

\* The default of Options.Table.
Migrations == <<"m", "i", "g", "r", "a", "t", "i", "o", "n", "s">>

\* A table name with a dot, as in the test of New.
SchemaMytable ==
    <<"s", "c", "h", "e", "m", "a", ".", "m", "y", "t", "a", "b", "l", "e">>

\* The names of the version tables that the database can come to hold.
TableNames == {Migrations, SchemaMytable}

NoTable == [exists |-> FALSE, rows |-> << >>]

\* A database without a version table and without any script's effect.
FreshDB == [tables |-> [t \in TableNames |-> NoTable], effects |-> {}]

Ev(e, name, version) == [e |-> e, name |-> name, version |-> version]

Result(d, err, events) == [db |-> d, err |-> err, events |-> events]

\* An error value: the chain of its messages, outermost first, and the
\* version and the script name that the innermost message carries.
NoErr == [msg |-> << >>, version |-> << >>, name |-> << >>]

Err(msg, version, name) == [msg |-> <<msg>>, version |-> version, name |-> name]

Failed(err) == err.msg # << >>

\* fmt.Errorf("<msg>: %w", err)
Wrap(msg, err) == IF Failed(err) THEN [err EXCEPT !.msg = <<msg>> \o @] ELSE err

\* The value of a panic in a step of a callback.
Thrown == Err("runtime fault", Empty, Empty)

\* How a step that fails under fault f ends: it returns err, or it panics.
Stop(f, err) == IF f.panic THEN Thrown ELSE err

\* The error that the deferred func of inTransaction makes of a panic.
Recovered == Err("panic: runtime fault", Empty, Empty)

\* The statements of a script, executed in a transaction: an up script puts
\* the effect of its version in place, a down script takes it away.
ExecScript(d, name) ==
    IF MatchString(upMatcher, name)
    THEN [d EXCEPT !.effects = @ \cup {ReplaceAllString(upMatcher, name)}]
    ELSE IF MatchString(downMatcher, name)
    THEN [d EXCEPT !.effects = @ \ {ReplaceAllString(downMatcher, name)}]
    ELSE d

\* The update of the version in the table of the default name, whatever
\* the table of the Migrator is.
UpdateVersionDefaultTable(d, table, version) ==
    [d EXCEPT !.tables[Migrations].rows = [i \in 1..Len(@) |-> version]]

\* update <table> set version = '<version>': every row of the table.
UpdateVersion(d, table, version) ==
    [d EXCEPT !.tables[table].rows = [i \in 1..Len(@) |-> version]]

\* F of the value of v, with v evaluated once.
With(v, F(_)) == CHOOSE y \in {F(x) : x \in {v}} : TRUE

RollbackFailed ==
    "error rolling back transaction after error (transaction error), original error"

\* rollback that returns the error of tx.Rollback in place of err.
rollbackDropsOriginal(f, err) ==
    IF f.rollback THEN Err(RollbackFailed, Empty, Empty) ELSE err

\* rollback: tx.Rollback, whose error is put in front of err.
rollback(f, err) == IF f.rollback THEN Wrap(RollbackFailed, err) ELSE err

Rolledback(cb) == cb.events \o <<Ev("Rollback", Empty, Empty)>>

\* inTransaction that leaves the work of a failed callback in place.
inTransactionNoRollback(d, k, f, cb) ==
    IF Hits(f, k, "begin")
    THEN Result(d, Err("error beginning transaction", Empty, Empty), << >>)
    ELSE LET begun == <<Ev("BeginTx", Empty, Empty)>>
         IN  IF Failed(cb.err)
             THEN Result(cb.db, rollback(f, IF cb.err = Thrown THEN Recovered
                                            ELSE cb.err),
                         begun \o Rolledback(cb))
             ELSE IF Hits(f, k, "commit")
             THEN Result(d, Err("error committing transaction", Empty, Empty),
                         begun \o cb.events \o <<Ev("Commit", Empty, Empty)>>)
             ELSE Result(cb.db, NoErr,
                         begun \o cb.events \o <<Ev("Commit", Empty, Empty)>>)

\* inTransaction without the deferred func: the panic of the callback goes
\* on to the caller and the transaction is left as it is.
inTransactionNoRecover(d, k, f, cb) ==
    IF Hits(f, k, "begin")
    THEN Result(d, Err("error beginning transaction", Empty, Empty), << >>)
    ELSE LET begun == <<Ev("BeginTx", Empty, Empty)>>
         IN  IF cb.err = Thrown
             THEN Result(d, Thrown, begun \o cb.events)
             ELSE IF Failed(cb.err)
             THEN Result(d, rollback(f, cb.err), begun \o Rolledback(cb))
             ELSE IF Hits(f, k, "commit")
             THEN Result(d, Err("error committing transaction", Empty, Empty),
                         begun \o cb.events \o <<Ev("Commit", Empty, Empty)>>)
             ELSE Result(cb.db, NoErr,
                         begun \o cb.events \o <<Ev("Commit", Empty, Empty)>>)

\* inTransaction that rolls back after a commit that failed.
inTransactionRollbackAfterCommit(d, k, f, cb) ==
    IF Hits(f, k, "begin")
    THEN Result(d, Err("error beginning transaction", Empty, Empty), << >>)
    ELSE LET begun == <<Ev("BeginTx", Empty, Empty)>>
         IN  IF cb.err = Thrown
             THEN Result(d, rollback(f, Recovered), begun \o Rolledback(cb))
             ELSE IF Failed(cb.err)
             THEN Result(d, rollback(f, cb.err), begun \o Rolledback(cb))
             ELSE IF Hits(f, k, "commit")
             THEN Result(d, Err("error committing transaction", Empty, Empty),
                         begun \o cb.events
                               \o <<Ev("Commit", Empty, Empty),
                                    Ev("Rollback", Empty, Empty)>>)
             ELSE Result(cb.db, NoErr,
                         begun \o cb.events \o <<Ev("Commit", Empty, Empty)>>)

\* inTransaction: cb is what the callback does on the transaction's view of
\* database d; k is the number of the transaction in the operation.
inTransaction(d, k, f, cb) ==
    IF Hits(f, k, "begin")
    THEN Result(d, Err("error beginning transaction", Empty, Empty), << >>)
    ELSE LET begun == <<Ev("BeginTx", Empty, Empty)>>
         IN  IF cb.err = Thrown
             THEN Result(d, rollback(f, Recovered), begun \o Rolledback(cb))
             ELSE IF Failed(cb.err)
             THEN Result(d, rollback(f, cb.err), begun \o Rolledback(cb))
             ELSE IF Hits(f, k, "commit")
             THEN Result(d, Err("error committing transaction", Empty, Empty),
                         begun \o cb.events \o <<Ev("Commit", Empty, Empty)>>)
             ELSE Result(cb.db, NoErr,
                         begun \o cb.events \o <<Ev("Commit", Empty, Empty)>>)

\* The callback of createMigrationsTable, inserting the empty version
\* whether the table has a row or not.
CreateTableCallbackAlwaysInsert(mig, d, f) ==
    IF Hits(f, 0, "create")
    THEN Result(d, Err("error creating migrations table", Empty, mig.table), << >>)
    ELSE LET d1 == [d EXCEPT !.tables[mig.table].exists = TRUE]
             e1 == <<Ev("create", mig.table, Empty)>>
         IN  IF Hits(f, 0, "exists")
             THEN Result(d1, Err("select exists", Empty, Empty), e1)
             ELSE IF Hits(f, 0, "insert")
             THEN Result(d1, Err("insert", Empty, Empty), e1)
             ELSE Result([d1 EXCEPT !.tables[mig.table].rows = Append(@, Empty)],
                         NoErr, e1 \o <<Ev("insert", mig.table, Empty)>>)

\* The callback of createMigrationsTable, creating the table and no row.
CreateTableCallbackNoInsert(mig, d, f) ==
    IF Hits(f, 0, "create")
    THEN Result(d, Err("error creating migrations table", Empty, mig.table), << >>)
    ELSE LET d1 == [d EXCEPT !.tables[mig.table].exists = TRUE]
             e1 == <<Ev("create", mig.table, Empty)>>
         IN  IF Hits(f, 0, "exists")
             THEN Result(d1, Err("select exists", Empty, Empty), e1)
             ELSE Result(d1, NoErr, e1)

\* The callback of createMigrationsTable that puts the empty version in a
\* table that has a row.
CreateTableCallbackReset(mig, d, f) ==
    IF Hits(f, 0, "create")
    THEN Result(d, Err("error creating migrations table", Empty, mig.table), << >>)
    ELSE LET d1 == [d EXCEPT !.tables[mig.table].exists = TRUE]
             e1 == <<Ev("create", mig.table, Empty)>>
         IN  IF Hits(f, 0, "exists")
             THEN Result(d1, Err("select exists", Empty, Empty), e1)
             ELSE IF d1.tables[mig.table].rows # << >>
             THEN Result(UpdateVersion(d1, mig.table, Empty), NoErr, e1)
             ELSE IF Hits(f, 0, "insert")
             THEN Result(d1, Err("insert", Empty, Empty), e1)
             ELSE Result([d1 EXCEPT !.tables[mig.table].rows = <<Empty>>], NoErr,
                         e1 \o <<Ev("insert", mig.table, Empty)>>)

\* The callback of createMigrationsTable.
CreateTableCallback(mig, d, f) ==
    IF Hits(f, 0, "create")
    THEN Result(d, Err("error creating migrations table", Empty, mig.table), << >>)
    ELSE LET d1 == [d EXCEPT !.tables[mig.table].exists = TRUE]
             e1 == <<Ev("create", mig.table, Empty)>>
         IN  IF Hits(f, 0, "exists")
             THEN Result(d1, Err("select exists", Empty, Empty), e1)
             ELSE IF d1.tables[mig.table].rows # << >>
             THEN Result(d1, NoErr, e1)
             ELSE IF Hits(f, 0, "insert")
             THEN Result(d1, Err("insert", Empty, Empty), e1)
             ELSE Result([d1 EXCEPT !.tables[mig.table].rows = <<Empty>>], NoErr,
                         e1 \o <<Ev("insert", mig.table, Empty)>>)

createMigrationsTable(mig, d, f) ==
    With(CreateTableCallback(mig, d, f), LAMBDA cb : inTransaction(d, 0, f, cb))

\* getCurrentVersion: the version of the first row; an error without a row.
getCurrentVersion(mig, d, f) ==
    IF \/ Hits(f, 0, "query")
       \/ ~d.tables[mig.table].exists
       \/ d.tables[mig.table].rows = << >>
    THEN [version |-> Empty,
          err |-> Err("error getting current migration version", Empty, Empty)]
    ELSE [version |-> d.tables[mig.table].rows[1], err |-> NoErr]

\* getFilenames that returns every entry of the listing.
getFilenamesUnmatched(dir, matcher, f) ==
    IF Hits(f, 0, "readdir")
    THEN [names |-> << >>, err |-> Err("readdir", Empty, Empty)]
    ELSE [names |-> dir, err |-> NoErr]

\* getFilenames: the entries whose name the matcher matches, in the order of
\* the listing dir.
getFilenames(dir, matcher, f) ==
    IF Hits(f, 0, "readdir")
    THEN [names |-> << >>, err |-> Err("readdir", Empty, Empty)]
    ELSE [names |-> SelectSeq(dir, LAMBDA n : MatchString(matcher, n)),
          err |-> NoErr]

\* The callback of apply, going on when the before callback returns an error.
ApplyCallbackBeforeIgnored(mig, d, k, f, name, version) ==
    LET eb == IF mig.before THEN <<Ev("before", name, version)>> ELSE << >>
        eu == eb \o <<Ev("update", name, version)>>
        ex == eu \o <<Ev("exec", name, version)>>
        ea == IF mig.after THEN ex \o <<Ev("after", name, version)>> ELSE ex
        d1 == UpdateVersion(d, mig.table, version)
        d2 == ExecScript(d1, name)
    IN  IF Hits(f, k, "update")
        THEN Result(d, Stop(f, Err("error updating version", version, Empty)), eu)
        ELSE IF Hits(f, k, "exec")
        THEN Result(d1, Stop(f, Err("error running migration", version, name)), ex)
        ELSE IF mig.after /\ Hits(f, k, "after")
        THEN Result(d2, Stop(f, Err("error in 'after' callback", version, name)), ea)
        ELSE Result(d2, NoErr, ea)

\* The callback of apply, going on when the after callback returns an error.
ApplyCallbackAfterIgnored(mig, d, k, f, name, version) ==
    LET eb == IF mig.before THEN <<Ev("before", name, version)>> ELSE << >>
        eu == eb \o <<Ev("update", name, version)>>
        ex == eu \o <<Ev("exec", name, version)>>
        ea == IF mig.after THEN ex \o <<Ev("after", name, version)>> ELSE ex
        d1 == UpdateVersion(d, mig.table, version)
        d2 == ExecScript(d1, name)
    IN  IF mig.before /\ Hits(f, k, "before")
        THEN Result(d, Stop(f, Err("error in 'before' callback", version, name)), eb)
        ELSE IF Hits(f, k, "update")
        THEN Result(d, Stop(f, Err("error updating version", version, Empty)), eu)
        ELSE IF Hits(f, k, "exec")
        THEN Result(d1, Stop(f, Err("error running migration", version, name)), ex)
        ELSE Result(d2, NoErr, ea)

\* The callback of apply, calling the after callback before the script.
ApplyCallbackAfterFirst(mig, d, k, f, name, version) ==
    LET eb == IF mig.before THEN <<Ev("before", name, version)>> ELSE << >>
        eu == eb \o <<Ev("update", name, version)>>
        ea == IF mig.after THEN eu \o <<Ev("after", name, version)>> ELSE eu
        ex == ea \o <<Ev("exec", name, version)>>
        d1 == UpdateVersion(d, mig.table, version)
        d2 == ExecScript(d1, name)
    IN  IF mig.before /\ Hits(f, k, "before")
        THEN Result(d, Stop(f, Err("error in 'before' callback", version, name)), eb)
        ELSE IF Hits(f, k, "update")
        THEN Result(d, Stop(f, Err("error updating version", version, Empty)), eu)
        ELSE IF mig.after /\ Hits(f, k, "after")
        THEN Result(d1, Stop(f, Err("error in 'after' callback", version, name)), ea)
        ELSE IF Hits(f, k, "exec")
        THEN Result(d1, Stop(f, Err("error running migration", version, name)), ex)
        ELSE Result(d2, NoErr, ex)

\* The callback of apply, giving the callbacks the version in the name of
\* the script in place of the version to update to.
ApplyCallbackOwnVersion(mig, d, k, f, name, version) ==
    LET own == IF MatchString(upMatcher, name)
               THEN ReplaceAllString(upMatcher, name)
               ELSE ReplaceAllString(downMatcher, name)
        eb == IF mig.before THEN <<Ev("before", name, own)>> ELSE << >>
        eu == eb \o <<Ev("update", name, version)>>
        ex == eu \o <<Ev("exec", name, version)>>
        ea == IF mig.after THEN ex \o <<Ev("after", name, own)>> ELSE ex
        d1 == UpdateVersion(d, mig.table, version)
        d2 == ExecScript(d1, name)
    IN  IF mig.before /\ Hits(f, k, "before")
        THEN Result(d, Stop(f, Err("error in 'before' callback", version, name)), eb)
        ELSE IF Hits(f, k, "update")
        THEN Result(d, Stop(f, Err("error updating version", version, Empty)), eu)
        ELSE IF Hits(f, k, "exec")
        THEN Result(d1, Stop(f, Err("error running migration", version, name)), ex)
        ELSE IF mig.after /\ Hits(f, k, "after")
        THEN Result(d2, Stop(f, Err("error in 'after' callback", version, name)), ea)
        ELSE Result(d2, NoErr, ea)

\* The callback of apply that runs the script before it updates the version.
ApplyCallbackScriptFirst(mig, d, k, f, name, version) ==
    LET eb == IF mig.before THEN <<Ev("before", name, version)>> ELSE << >>
        ex == eb \o <<Ev("exec", name, version)>>
        eu == ex \o <<Ev("update", name, version)>>
        ea == IF mig.after THEN eu \o <<Ev("after", name, version)>> ELSE eu
        d1 == ExecScript(d, name)
        d2 == UpdateVersion(d1, mig.table, version)
    IN  IF mig.before /\ Hits(f, k, "before")
        THEN Result(d, Stop(f, Err("error in 'before' callback", version, name)), eb)
        ELSE IF Hits(f, k, "exec")
        THEN Result(d, Stop(f, Err("error running migration", version, name)), ex)
        ELSE IF Hits(f, k, "update")
        THEN Result(d1, Stop(f, Err("error updating version", version, Empty)), eu)
        ELSE IF mig.after /\ Hits(f, k, "after")
        THEN Result(d2, Stop(f, Err("error in 'after' callback", version, name)), ea)
        ELSE Result(d2, NoErr, ea)

\* The callback of apply: before, the version update, the script, after.
ApplyCallback(mig, d, k, f, name, version) ==
    LET eb == IF mig.before THEN <<Ev("before", name, version)>> ELSE << >>
        eu == eb \o <<Ev("update", name, version)>>
        ex == eu \o <<Ev("exec", name, version)>>
        ea == IF mig.after THEN ex \o <<Ev("after", name, version)>> ELSE ex
        d1 == UpdateVersion(d, mig.table, version)
        d2 == ExecScript(d1, name)
    IN  IF mig.before /\ Hits(f, k, "before")
        THEN Result(d, Stop(f, Err("error in 'before' callback", version, name)), eb)
        ELSE IF Hits(f, k, "update")
        THEN Result(d, Stop(f, Err("error updating version", version, Empty)), eu)
        ELSE IF Hits(f, k, "exec")
        THEN Result(d1, Stop(f, Err("error running migration", version, name)), ex)
        ELSE IF mig.after /\ Hits(f, k, "after")
        THEN Result(d2, Stop(f, Err("error in 'after' callback", version, name)), ea)
        ELSE Result(d2, NoErr, ea)

\* apply that reads the file inside the transaction.
applyReadInTransaction(mig, d, k, f, name, version) ==
    IF Hits(f, k, "begin")
    THEN Result(d, Err("error beginning transaction", Empty, Empty), << >>)
    ELSE IF Hits(f, k, "readfile")
    THEN Result(d, Err("error reading migration file", Empty, name),
                <<Ev("BeginTx", Empty, Empty), Ev("ReadFile", name, Empty),
                  Ev("Rollback", Empty, Empty)>>)
    ELSE With(ApplyCallback(mig, d, k, f, name, version), LAMBDA cb :
         With(inTransaction(d, k, f, cb), LAMBDA r :
              Result(r.db, r.err, <<Ev("ReadFile", name, Empty)>> \o r.events)))

\* apply the file identified by name and update to version; it is the k-th
\* apply of the operation.
apply(mig, d, k, f, name, version) ==
    IF Hits(f, k, "readfile")
    THEN Result(d, Err("error reading migration file", Empty, name),
                <<Ev("ReadFile", name, Empty)>>)
    ELSE With(ApplyCallback(mig, d, k, f, name, version), LAMBDA cb :
         With(inTransaction(d, k, f, cb), LAMBDA r :
              Result(r.db, r.err, <<Ev("ReadFile", name, Empty)>> \o r.events)))

----------------------------------------------------------------------------
(* The operations *)

\* What an operation has done: the database it leaves, the error it
\* returns, the calls it made and the scripts whose apply committed.
Outcome(d, err, events, applied) ==
    [db |-> d, err |-> err, events |-> events, applied |-> applied,
     panicked |-> FALSE]

Applied(name, version) == [name |-> name, version |-> version]

\* One pass of a loop body that calls apply: acc is the outcome so far and
\* r the result of the apply.
AfterApply(acc, r, name, version) ==
    Outcome(r.db, r.err, acc.events \o r.events,
            IF Failed(r.err) THEN acc.applied
            ELSE Append(acc.applied, Applied(name, version)))

\* The call of apply in a loop body.
Apply(mig, acc, k, f, name, version) ==
    With(apply(mig, acc.db, k, f, name, version), LAMBDA r :
         AfterApply(acc, r, name, version))

\* names[i] with Go's index, which starts at 0.
At(names, i) == names[i + 1]

\* The loop of MigrateUp, going on to the next script after a failed apply.
RECURSIVE UpLoopPastFailure(_, _, _, _, _, _, _)
UpLoopPastFailure(mig, acc, names, i, k, f, currentVersion) ==
    IF i >= Len(names) THEN acc
    ELSE With(ReplaceAllString(upMatcher, At(names, i)), LAMBDA thisVersion :
         IF Leq(thisVersion, currentVersion)
         THEN UpLoopPastFailure(mig, acc, names, i + 1, k, f, currentVersion)
         ELSE With(Apply(mig, acc, k, f, At(names, i), thisVersion), LAMBDA r :
              With(UpLoopPastFailure(mig, [r EXCEPT !.err = NoErr], names,
                                     i + 1, k + 1, f, currentVersion), LAMBDA rest :
                   IF Failed(r.err) THEN [rest EXCEPT !.err = r.err] ELSE rest)))

\* The loop of MigrateUp from entry i on; k numbers the next apply.
RECURSIVE UpLoop(_, _, _, _, _, _, _)
UpLoop(mig, acc, names, i, k, f, currentVersion) ==
    IF i >= Len(names) THEN acc
    ELSE With(ReplaceAllString(upMatcher, At(names, i)), LAMBDA thisVersion :
         IF Leq(thisVersion, currentVersion)
         THEN UpLoop(mig, acc, names, i + 1, k, f, currentVersion)
         ELSE With(Apply(mig, acc, k, f, At(names, i), thisVersion), LAMBDA r :
              IF Failed(r.err) THEN r
              ELSE UpLoop(mig, r, names, i + 1, k + 1, f, currentVersion)))

MigrateUp(mig, d, dir, f) ==
    With(createMigrationsTable(mig, d, f), LAMBDA t :
    IF Failed(t.err)
    THEN Outcome(t.db, Wrap("error migrating up", t.err), t.events, << >>)
    ELSE
    With(getCurrentVersion(mig, t.db, f), LAMBDA cv :
    IF Failed(cv.err)
    THEN Outcome(t.db, Wrap("error migrating up", cv.err), t.events, << >>)
    ELSE
    With(getFilenames(dir, upMatcher, f), LAMBDA fn :
    With(Outcome(t.db, NoErr, t.events \o <<Ev("ReadDir", Empty, Empty)>>, << >>),
         LAMBDA start :
    IF Failed(fn.err)
    THEN [start EXCEPT !.err = Wrap("error migrating up", fn.err)]
    ELSE With(UpLoop(mig, start, fn.names, 0, 1, f, cv.version), LAMBDA r :
              [r EXCEPT !.err = Wrap("error migrating up", @)])))))

\* The loop of MigrateDown without the test that skips the newer scripts.
RECURSIVE DownLoopNoSkip(_, _, _, _, _, _, _)
DownLoopNoSkip(mig, acc, names, i, k, f, currentVersion) ==
    IF i < 0 THEN acc
    ELSE With(IF i > 0 THEN ReplaceAllString(downMatcher, At(names, i - 1))
              ELSE Empty, LAMBDA nextVersion :
         With(Apply(mig, acc, k, f, At(names, i), nextVersion), LAMBDA r :
              IF Failed(r.err) THEN r
              ELSE DownLoopNoSkip(mig, r, names, i - 1, k + 1, f, currentVersion)))

\* The loop of MigrateDown that records the version of the script it
\* applies.
RECURSIVE DownLoopOwnVersion(_, _, _, _, _, _, _)
DownLoopOwnVersion(mig, acc, names, i, k, f, currentVersion) ==
    IF i < 0 THEN acc
    ELSE With(ReplaceAllString(downMatcher, At(names, i)), LAMBDA thisVersion :
         IF Greater(thisVersion, currentVersion)
         THEN DownLoopOwnVersion(mig, acc, names, i - 1, k, f, currentVersion)
         ELSE With(Apply(mig, acc, k, f, At(names, i), thisVersion), LAMBDA r :
              IF Failed(r.err) THEN r
              ELSE DownLoopOwnVersion(mig, r, names, i - 1, k + 1, f,
                                      currentVersion)))

\* The loop of MigrateDown from entry i down.
RECURSIVE DownLoop(_, _, _, _, _, _, _)
DownLoop(mig, acc, names, i, k, f, currentVersion) ==
    IF i < 0 THEN acc
    ELSE With(ReplaceAllString(downMatcher, At(names, i)), LAMBDA thisVersion :
         IF Greater(thisVersion, currentVersion)
         THEN DownLoop(mig, acc, names, i - 1, k, f, currentVersion)
         ELSE With(IF i > 0 THEN ReplaceAllString(downMatcher, At(names, i - 1))
                   ELSE Empty, LAMBDA nextVersion :
              With(Apply(mig, acc, k, f, At(names, i), nextVersion), LAMBDA r :
                   IF Failed(r.err) THEN r
                   ELSE DownLoop(mig, r, names, i - 1, k + 1, f, currentVersion))))

MigrateDown(mig, d, dir, f) ==
    With(createMigrationsTable(mig, d, f), LAMBDA t :
    IF Failed(t.err)
    THEN Outcome(t.db, Wrap("error migrating down", t.err), t.events, << >>)
    ELSE
    With(getCurrentVersion(mig, t.db, f), LAMBDA cv :
    IF Failed(cv.err)
    THEN Outcome(t.db, Wrap("error migrating down", cv.err), t.events, << >>)
    ELSE
    With(getFilenames(dir, downMatcher, f), LAMBDA fn :
    With(Outcome(t.db, NoErr, t.events \o <<Ev("ReadDir", Empty, Empty)>>, << >>),
         LAMBDA start :
    IF Failed(fn.err)
    THEN [start EXCEPT !.err = Wrap("error migrating down", fn.err)]
    ELSE With(DownLoop(mig, start, fn.names, Len(fn.names) - 1, 1, f, cv.version),
              LAMBDA r : [r EXCEPT !.err = Wrap("error migrating down", @)])))))

\* The upward loop of MigrateTo.
RECURSIVE ToUpLoop(_, _, _, _, _, _, _, _)
ToUpLoop(mig, acc, names, i, k, f, currentVersion, version) ==
    IF i >= Len(names) THEN acc
    ELSE With(ReplaceAllString(upMatcher, At(names, i)), LAMBDA thisVersion :
         IF Leq(thisVersion, currentVersion)
         THEN ToUpLoop(mig, acc, names, i + 1, k, f, currentVersion, version)
         ELSE IF Greater(thisVersion, version) THEN acc
         ELSE With(Apply(mig, acc, k, f, At(names, i), thisVersion), LAMBDA r :
              IF Failed(r.err) THEN r
              ELSE ToUpLoop(mig, r, names, i + 1, k + 1, f,
                            currentVersion, version)))

\* The downward loop of MigrateTo; it reads names[i-1] without a test of i.
RECURSIVE ToDownLoop(_, _, _, _, _, _, _, _)
ToDownLoop(mig, acc, names, i, k, f, currentVersion, version) ==
    IF i < 0 THEN acc
    ELSE With(ReplaceAllString(downMatcher, At(names, i)), LAMBDA thisVersion :
         IF Greater(thisVersion, currentVersion)
         THEN ToDownLoop(mig, acc, names, i - 1, k, f, currentVersion, version)
         ELSE IF Leq(thisVersion, version) THEN acc
         ELSE IF i - 1 < 0 THEN [acc EXCEPT !.panicked = TRUE]
         ELSE With(ReplaceAllString(downMatcher, At(names, i - 1)),
                   LAMBDA nextVersion :
              With(Apply(mig, acc, k, f, At(names, i), nextVersion), LAMBDA r :
                   IF Failed(r.err) THEN r
                   ELSE ToDownLoop(mig, r, names, i - 1, k + 1, f,
                                   currentVersion, version))))

\* foundVersion that is true of every version.
FoundVersionAlways(matcher, names, version) == TRUE

\* foundVersion of MigrateTo.
FoundVersion(matcher, names, version) ==
    \E i \in 1..Len(names) : ReplaceAllString(matcher, names[i]) = version

\* MigrateToVersion without the return for the version that is current.
MigrateToVersionNoShortcut(mig, d, dir, f, version) ==
    With(createMigrationsTable(mig, d, f), LAMBDA t :
    IF Failed(t.err) THEN Outcome(t.db, t.err, t.events, << >>)
    ELSE
    With(getCurrentVersion(mig, t.db, f), LAMBDA cv :
    IF Failed(cv.err) THEN Outcome(t.db, cv.err, t.events, << >>)
    ELSE
    With(IF Greater(version, cv.version) THEN upMatcher ELSE downMatcher,
         LAMBDA matcher :
    With(getFilenames(dir, matcher, f), LAMBDA fn :
    With(Outcome(t.db, NoErr, t.events \o <<Ev("ReadDir", Empty, Empty)>>, << >>),
         LAMBDA start :
    IF Failed(fn.err) THEN [start EXCEPT !.err = fn.err]
    ELSE IF ~FoundVersion(matcher, fn.names, version)
    THEN [start EXCEPT !.err = Err("error finding version", version, Empty)]
    ELSE IF Greater(version, cv.version)
    THEN ToUpLoop(mig, start, fn.names, 0, 1, f, cv.version, version)
    ELSE IF Less(version, cv.version)
    THEN ToDownLoop(mig, start, fn.names, Len(fn.names) - 1, 1, f,
                    cv.version, version)
    ELSE start)))))

\* MigrateTo for a version that is not the empty string: the part of
\* MigrateTo after its first test.
MigrateToVersion(mig, d, dir, f, version) ==
    With(createMigrationsTable(mig, d, f), LAMBDA t :
    IF Failed(t.err) THEN Outcome(t.db, t.err, t.events, << >>)
    ELSE
    With(getCurrentVersion(mig, t.db, f), LAMBDA cv :
    IF Failed(cv.err) THEN Outcome(t.db, cv.err, t.events, << >>)
    ELSE IF cv.version = version THEN Outcome(t.db, NoErr, t.events, << >>)
    ELSE
    With(IF Greater(version, cv.version) THEN upMatcher ELSE downMatcher,
         LAMBDA matcher :
    With(getFilenames(dir, matcher, f), LAMBDA fn :
    With(Outcome(t.db, NoErr, t.events \o <<Ev("ReadDir", Empty, Empty)>>, << >>),
         LAMBDA start :
    IF Failed(fn.err) THEN [start EXCEPT !.err = fn.err]
    ELSE IF ~FoundVersion(matcher, fn.names, version)
    THEN [start EXCEPT !.err = Err("error finding version", version, Empty)]
    ELSE IF Greater(version, cv.version)
    THEN ToUpLoop(mig, start, fn.names, 0, 1, f, cv.version, version)
    ELSE IF Less(version, cv.version)
    THEN ToDownLoop(mig, start, fn.names, Len(fn.names) - 1, 1, f,
                    cv.version, version)
    ELSE start)))))

\* MigrateTo without the call of MigrateDown for the empty version.
MigrateToNoDelegation(mig, d, dir, f, version) ==
    With(MigrateToVersion(mig, d, dir, f, version),
         LAMBDA r : [r EXCEPT !.err = Wrap("error migrating to", @)])

MigrateTo(mig, d, dir, f, version) ==
    With(IF version = Empty THEN MigrateDown(mig, d, dir, f)
         ELSE MigrateToVersion(mig, d, dir, f, version),
         LAMBDA r : [r EXCEPT !.err = Wrap("error migrating to", @)])

----------------------------------------------------------------------------
(* The state machine: one caller and one database *)

\* Options for New; DB and FS tell whether the handle is set (not nil).
Options(DB, FS, Table, Before, After) ==
    [After |-> After, Before |-> Before, DB |-> DB, FS |-> FS, Table |-> Table]

NoOptions == Options(FALSE, FALSE, Empty, FALSE, FALSE)

\* The value of a panic: its message and the table name that it quotes.
Panic(msg, table) == [msg |-> msg, table |-> table]

NoPanic == Panic("", Empty)

\* New without the test of the table name.
NewAnyTable(opts) ==
    IF ~opts.DB \/ ~opts.FS
    THEN [panic |-> Panic("DB and FS must be set", Empty), migrator |-> << >>]
    ELSE [panic |-> NoPanic,
          migrator |-> [before |-> opts.Before, after |-> opts.After,
                        table |-> IF opts.Table = Empty THEN Migrations
                                  ELSE opts.Table]]

\* New with the test of the table name before the test of the handles.
NewTableFirst(opts) ==
    LET table == IF opts.Table = Empty THEN Migrations ELSE opts.Table
    IN  IF ~TableMatches(table)
        THEN [panic |-> Panic("illegal table name", table), migrator |-> << >>]
        ELSE IF ~opts.DB \/ ~opts.FS
        THEN [panic |-> Panic("DB and FS must be set", Empty), migrator |-> << >>]
        ELSE [panic |-> NoPanic,
              migrator |-> [before |-> opts.Before, after |-> opts.After,
                            table |-> table]]

\* New: the Migrator it returns, or the value it panics with.
New(opts) ==
    IF ~opts.DB \/ ~opts.FS
    THEN [panic |-> Panic("DB and FS must be set", Empty), migrator |-> << >>]
    ELSE LET table == IF opts.Table = Empty THEN Migrations ELSE opts.Table
         IN  IF ~TableMatches(table)
             THEN [panic |-> Panic("illegal table name", table),
                   migrator |-> << >>]
             ELSE [panic |-> NoPanic,
                   migrator |-> [before |-> opts.Before, after |-> opts.After,
                                 table |-> table]]

\* Options that pass New: the default table without and with callbacks,
\* and a table name of the caller's with one callback each.
GoodOptions ==
    {Options(TRUE, TRUE, Empty, FALSE, FALSE),
     Options(TRUE, TRUE, Empty, TRUE, TRUE),
     Options(TRUE, TRUE, SchemaMytable, TRUE, FALSE),
     Options(TRUE, TRUE, SchemaMytable, FALSE, TRUE)}

\* Options that New refuses: a table name that tableMatcher does not match,
\* or a handle that is missing, with a good and with a bad table name.
BadOptions ==
    {Options(TRUE, TRUE, t, FALSE, FALSE) : t \in {<<"+">>, <<"a", "-", "b">>}}
    \cup {Options(h[1], h[2], t, FALSE, FALSE) :
            h \in {<<FALSE, TRUE>>, <<TRUE, FALSE>>, <<FALSE, FALSE>>},
            t \in {Empty, <<"+">>}}

NoOp ==
    [kind |-> "none", version |-> Empty, fault |-> NoFault, pre |-> FreshDB,
     err |-> NoErr, events |-> << >>, applied |-> << >>, panicked |-> FALSE,
     opts |-> NoOptions, panic |-> NoPanic]

Record(kind, version, f, out) ==
    [kind |-> kind, version |-> version, fault |-> f, pre |-> db,
     err |-> out.err, events |-> out.events, applied |-> out.applied,
     panicked |-> out.panicked, opts |-> NoOptions, panic |-> NoPanic]

NoPrev == [kind |-> "none", ok |-> TRUE, rest |-> << >>]

Idle == last.kind = "none"

Init ==
    /\ fsys \in {ReadDir(dir) : dir \in Dirs}
    /\ m \in {New(opts).migrator : opts \in GoodOptions}
    /\ db = FreshDB
    /\ last = NoOp
    /\ prev = NoPrev
    /\ running = << >>

\* A call of New on the same database and provider: the caller goes on
\* with the Migrator it returns, and with the one it had when New panics.
DoNew ==
    /\ Idle
    /\ \E opts \in GoodOptions \cup BadOptions :
        \E out \in {New(opts)} :
            /\ m' = IF out.panic = NoPanic THEN out.migrator ELSE m
            /\ last' = [NoOp EXCEPT !.kind = "new", !.pre = db, !.opts = opts,
                                    !.panic = out.panic,
                                    !.panicked = out.panic # NoPanic]
    /\ UNCHANGED <<fsys, db, prev, running>>

\* The number of applies of the run without a fault, whose outcome is plain:
\* no run of the operation from the same database has more.
Applies(plain) ==
    Len(SelectSeq(plain.events, LAMBDA ev : ev.e = "ReadFile"))

\* A fault in the i-th apply is a fault of the operation only when the
\* operation gets to an i-th apply, and a fault of a callback only when the
\* Migrator has the callback: the steps of an apply are run one after the
\* other up to the fault.  Otherwise the run is the one without a fault and
\* is recorded there.  A fault of the table transaction, the version query
\* or the listing is recorded also for an operation that does not get to
\* the step.
Occurs(f, plain) ==
    f.at >= 1 =>
        /\ f.at <= Applies(plain)
        /\ f.phase = "before" => m.before
        /\ f.phase = "after" => m.after

DoMigrateUp ==
    /\ Idle
    /\ \E plain \in {MigrateUp(m, db, fsys, NoFault)} :
        \E f \in {g \in Faults : Occurs(g, plain)} :
        \E out \in {MigrateUp(m, db, fsys, f)} :
            /\ db' = out.db
            /\ last' = Record("up", Empty, f, out)
    /\ UNCHANGED <<fsys, m, prev, running>>

DoMigrateDown ==
    /\ Idle
    /\ \E plain \in {MigrateDown(m, db, fsys, NoFault)} :
        \E f \in {g \in Faults : Occurs(g, plain)} :
        \E out \in {MigrateDown(m, db, fsys, f)} :
            /\ db' = out.db
            /\ last' = Record("down", Empty, f, out)
    /\ UNCHANGED <<fsys, m, prev, running>>

DoMigrateTo ==
    /\ Idle
    /\ \E version \in Targets :
        \E plain \in {MigrateTo(m, db, fsys, NoFault, version)} :
        \E f \in {g \in Faults : Occurs(g, plain)} :
        \E out \in {MigrateTo(m, db, fsys, f, version)} :
            /\ db' = out.db
            /\ last' = Record("to", version, f, out)
    /\ UNCHANGED <<fsys, m, prev, running>>

\* The MigrateUp of last failed in the apply of a script.
UpFailedAtScript ==
    /\ last.kind = "up"
    /\ Failed(last.err)
    /\ Len(SelectSeq(last.events, LAMBDA ev : ev.e = "ReadFile"))
          > Len(last.applied)

\* The up scripts of the listing from the one on that MigrateUp failed at.
UpRest ==
    LET reads == SelectSeq(last.events, LAMBDA ev : ev.e = "ReadFile")
        ups == SelectSeq(fsys, LAMBDA n : MatchString(upMatcher, n))
        k == CHOOSE j \in 1..Len(ups) : ups[j] = reads[Len(reads)].name
    IN  SubSeq(ups, k, Len(ups))

\* The operation returns to its caller, who may then start the next one.
Return ==
    /\ ~Idle
    /\ prev' = IF last.kind = "up" /\ ~Failed(last.err) /\ ~last.panicked
               THEN [kind |-> "up", ok |-> TRUE, rest |-> << >>]
               ELSE IF UpFailedAtScript
               THEN [kind |-> "up", ok |-> FALSE, rest |-> UpRest]
               ELSE NoPrev
    /\ last' = NoOp
    /\ UNCHANGED <<fsys, m, db, running>>

Next == DoNew \/ DoMigrateUp \/ DoMigrateDown \/ DoMigrateTo \/ Return

Spec == Init /\ [][Next]_vars

----------------------------------------------------------------------------
(* What the properties speak of *)

\* The version an operation finds stored: the version of the row, and the
\* empty version that createMigrationsTable seeds when there is no row yet.
StoredVersion(d) ==
    LET t == d.tables[m.table]
    IN  IF t.exists /\ t.rows # << >> THEN t.rows[1] ELSE Empty

\* The effects in place after the scripts of applied ran in their order.
RECURSIVE EffectsAfter(_, _)
EffectsAfter(effects, applied) ==
    IF applied = << >> THEN effects
    ELSE LET name == Head(applied).name
             next == IF MatchString(upMatcher, name)
                     THEN effects \cup {ReplaceAllString(upMatcher, name)}
                     ELSE effects \ {ReplaceAllString(downMatcher, name)}
         IN  EffectsAfter(next, Tail(applied))

EventsOf(kind) == SelectSeq(last.events, LAMBDA ev : ev.e = kind)

\* The names of the scripts whose content the operation read, in order.
FilesRead == [i \in 1..Len(EventsOf("ReadFile")) |-> EventsOf("ReadFile")[i].name]

UpNames == SelectSeq(fsys, LAMBDA n : MatchString(upMatcher, n))

DownNames == SelectSeq(fsys, LAMBDA n : MatchString(downMatcher, n))

UpVersionOf(name) == ReplaceAllString(upMatcher, name)

DownVersionOf(name) == ReplaceAllString(downMatcher, name)

\* The up scripts with a version above c, in the order of the listing.
UpTodo(c) == SelectSeq(UpNames, LAMBDA n : Greater(UpVersionOf(n), c))

\* A fault was put in one of the applies of the operation and made it fail.
ApplyFailed == Failed(last.err) /\ last.fault.at >= 1

----------------------------------------------------------------------------
C2_UpStopsAtFirstFailure ==
    (last.kind = "up" /\ ApplyFailed) =>
        LET c == StoredVersion(last.pre)
            todo == UpTodo(c)
            n == Len(last.applied)
        IN  /\ n < Len(todo)
            /\ \A i \in 1..n : last.applied[i].name = todo[i]
            /\ FilesRead = SubSeq(todo, 1, n + 1)
            /\ db.effects = last.pre.effects
                               \cup {UpVersionOf(todo[i]) : i \in 1..n}
            /\ StoredVersion(db) = IF n = 0 THEN c ELSE UpVersionOf(todo[n])
            /\ last.err.msg[1] = "error migrating up"
            /\ Len(last.err.msg) = IF last.fault.rollback THEN 3 ELSE 2

\* MigrateUp over versions 1, 2, 3 failed in the script of version 2.
C2_Witness ==
    /\ last.kind = "up"
    /\ last.fault = Fault(2, "exec")
    /\ Failed(last.err)
    /\ StoredVersion(last.pre) = Empty
    /\ Len(UpNames) = 3
    /\ StoredVersion(db) = V1
    /\ db.effects = {V1}

----------------------------------------------------------------------------
(* More of what the properties speak of *)

UpVersions == {UpVersionOf(UpNames[i]) : i \in 1..Len(UpNames)}

DownVersions == {DownVersionOf(DownNames[i]) : i \in 1..Len(DownNames)}

AppliedNames == [i \in 1..Len(last.applied) |-> last.applied[i].name]

\* The greatest of a non-empty set of versions.
Greatest(versions) == CHOOSE v \in versions : \A w \in versions : Leq(w, v)

\* The operation ran without a fault of a collaborator.
Faultless == last.fault = NoFault

\* The version table held a row when the operation started.
HadVersion ==
    /\ last.pre.tables[m.table].exists
    /\ last.pre.tables[m.table].rows # << >>

\* The scripts come in pairs <v>.up.sql and <v>.down.sql, one pair for a version.
ValidScripts ==
    /\ \A i \in 1..Len(UpNames) : UpNames[i] = UpName(UpVersionOf(UpNames[i]))
    /\ \A i \in 1..Len(DownNames) :
          DownNames[i] = DownName(DownVersionOf(DownNames[i]))
    /\ UpVersions = DownVersions

\* The versions of the scripts MigrateTo(v) looks v up in, from version c.
ChosenVersions(c, v) == IF Greater(v, c) THEN UpVersions ELSE DownVersions

NotFound == last.err.msg = <<"error migrating to", "error finding version">>

\* The operation left the version and the effects as they were and read no
\* script.
NothingApplied ==
    /\ last.applied = << >>
    /\ FilesRead = << >>
    /\ StoredVersion(db) = StoredVersion(last.pre)
    /\ db.effects = last.pre.effects

----------------------------------------------------------------------------
(* C3 (as claimed): when MigrateUp returns success from version c over a   *)
(* listing in ascending file name order, every up script with a version    *)
(* above c was applied exactly once, none with a version up to c was       *)
(* applied, and the stored version is the greatest up version if that is   *)
(* above c, and c otherwise.                                               *)
C3_UpReachesGreatest ==
    (last.kind = "up" /\ ~Failed(last.err)) =>
        LET c == StoredVersion(last.pre)
        IN  /\ AppliedNames = UpTodo(c)
            /\ StoredVersion(db) =
                  IF UpVersions # {} /\ Greater(Greatest(UpVersions), c)
                  THEN Greatest(UpVersions) ELSE c

(* C4 (as claimed): a MigrateUp after a MigrateUp that returned success,   *)
(* with the same scripts, applies no script, leaves the stored version     *)
(* unchanged and returns success.                                          *)
C4_UpIdempotent ==
    (prev.kind = "up" /\ prev.ok /\ last.kind = "up" /\ Faultless) =>
        /\ NothingApplied
        /\ ~Failed(last.err)

(* C5 (as claimed): for a valid script set, a successful MigrateDown after *)
(* a successful MigrateUp leaves the empty version stored and no up        *)
(* script's effect in place, the down script of every version having run   *)
(* once.                                                                   *)
C5_RoundTrip ==
    (ValidScripts /\ prev.kind = "up" /\ prev.ok
                  /\ last.kind = "down" /\ ~Failed(last.err)) =>
        /\ StoredVersion(db) = Empty
        /\ db.effects \cap UpVersions = {}
        /\ \A v \in UpVersions :
              Cardinality({i \in 1..Len(AppliedNames) :
                              AppliedNames[i] = DownName(v)}) = 1

(* C6 (as claimed): when MigrateTo(v) with v not empty returns success,    *)
(* the stored version is v.                                                *)
C6_ToReachesTarget ==
    (last.kind = "to" /\ last.version # Empty /\ ~Failed(last.err)) =>
        StoredVersion(db) = last.version

(* C7 (as claimed): MigrateTo(v) for a v that is not among the scripts of  *)
(* the chosen direction (up if v is above the current version, else down)  *)
(* returns the version-not-found error, applies no script and leaves the   *)
(* stored version unchanged.                                               *)
C7_UnknownVersionFails ==
    (last.kind = "to" /\ Faultless
       /\ last.version \notin ChosenVersions(StoredVersion(last.pre), last.version)) =>
        /\ NotFound
        /\ NothingApplied

(* C7 (amended): the same for a v that is not empty and not the current    *)
(* version, whatever fault the collaborators show; the error is the        *)
(* version-not-found error unless the table or the listing failed before.  *)
C7_UnknownOtherVersionFails ==
    (last.kind = "to" /\ last.version # Empty
       /\ last.version # StoredVersion(last.pre)
       /\ last.version \notin ChosenVersions(StoredVersion(last.pre), last.version)) =>
        /\ Failed(last.err)
        /\ (last.fault.at >= 1 \/ Faultless) => (NotFound /\ last.err.version = last.version)
        /\ NothingApplied

\* MigrateTo with a version that no script has, from version 1 with later
\* up scripts present.
C7_Witness ==
    /\ last.kind = "to"
    /\ last.version = Vx
    /\ NotFound
    /\ StoredVersion(last.pre) = V1
    /\ UpTodo(V1) # << >>

(* C8 (as claimed): MigrateTo(v) with v the stored version applies no      *)
(* script, lists and reads no script, leaves the database as it is and     *)
(* returns success.                                                        *)
C8_SameVersionNoOp ==
    (last.kind = "to" /\ Faultless /\ HadVersion
       /\ StoredVersion(last.pre) = last.version) =>
        /\ NothingApplied
        /\ EventsOf("ReadDir") = << >>
        /\ db = last.pre
        /\ ~Failed(last.err)

(* C8 (amended): the same for a v that is not empty; a fault of the        *)
(* listing or of an apply cannot make it fail, as neither is called.       *)
C8_SameVersionNotEmptyNoOp ==
    (last.kind = "to" /\ HadVersion /\ last.version # Empty
       /\ StoredVersion(last.pre) = last.version) =>
        /\ NothingApplied
        /\ EventsOf("ReadDir") = << >>
        /\ db = last.pre
        /\ (Faultless \/ last.fault.at >= 1 \/ last.fault.phase = "readdir")
              => ~Failed(last.err)

\* MigrateTo with the stored version, which no down script has, under a
\* fault of the listing.
C8_Witness ==
    /\ last.kind = "to"
    /\ HadVersion
    /\ last.version = V2
    /\ StoredVersion(last.pre) = V2
    /\ V2 \notin DownVersions
    /\ last.fault = Fault(0, "readdir")
    /\ ~Failed(last.err)

(* C9: MigrateTo with the empty version does what MigrateDown does from    *)
(* the same database with the same scripts under the same faults: the      *)
(* same calls, the same scripts applied, the same database left, and the   *)
(* same error but for the message MigrateTo puts in front.                 *)
C9_ToEmptyIsDown ==
    (last.kind = "to" /\ last.version = Empty) =>
        \A down \in {MigrateDown(m, last.pre, fsys, last.fault)} :
            /\ db = down.db
            /\ last.applied = down.applied
            /\ last.events = down.events
            /\ Failed(last.err) = Failed(down.err)
            /\ last.err = Wrap("error migrating to", down.err)

\* MigrateTo with the empty version failed in its second script.
C9_Witness ==
    /\ last.kind = "to"
    /\ last.version = Empty
    /\ Len(last.applied) = 1
    /\ Len(FilesRead) = 2
    /\ Failed(last.err)

----------------------------------------------------------------------------
(* What the properties about the callbacks speak of *)

\* Message msg is in the chain of error err.
HasMsg(err, msg) == \E i \in 1..Len(err.msg) : err.msg[i] = msg

\* The version that the last committed apply of the operation recorded, and
\* the one stored before the operation when no apply committed.
CommittedVersion ==
    IF last.applied = << >> THEN StoredVersion(last.pre)
    ELSE last.applied[Len(last.applied)].version

Migrating == last.kind \in {"up", "down", "to"}

\* The operation called the before (the after) callback that the fault
\* makes return an error.
BeforeFails ==
    /\ Migrating
    /\ last.fault.phase = "before"
    /\ ~last.fault.panic
    /\ Len(EventsOf("before")) >= last.fault.at

AfterFails ==
    /\ Migrating
    /\ last.fault.phase = "after"
    /\ ~last.fault.panic
    /\ Len(EventsOf("after")) >= last.fault.at

\* The operation ended with the rollback of the apply that came after the
\* committed ones: that script was read, no later one was.
StoppedInApply ==
    /\ Failed(last.err)
    /\ last.events[Len(last.events)].e = "Rollback"
    /\ Len(EventsOf("Rollback")) = 1
    /\ Len(EventsOf("Commit")) = 1 + Len(last.applied)
    /\ Len(FilesRead) = Len(last.applied) + 1
    /\ last.err.name = FilesRead[Len(FilesRead)]
    /\ StoredVersion(db) = CommittedVersion
    /\ db.effects = EffectsAfter(last.pre.effects, last.applied)

(* C11: when the before callback returns an error for a script, the        *)
(* version update and the statements of that script are not executed, the  *)
(* transaction is rolled back, the stored version is the one from before   *)
(* that apply, the operation returns the error and attempts no later       *)
(* script.                                                                 *)
C11_BeforeFailureAborts ==
    BeforeFails =>
        /\ StoppedInApply
        /\ HasMsg(last.err, "error in 'before' callback")
        /\ Len(EventsOf("before")) = Len(last.applied) + 1
        /\ Len(EventsOf("update")) = Len(last.applied)
        /\ Len(EventsOf("exec")) = Len(last.applied)
        /\ Len(EventsOf("after")) = IF m.after THEN Len(last.applied) ELSE 0

\* MigrateUp over versions 1, 2, 3 with the before callback failing for
\* version 2, version 1 being committed.
C11_Witness ==
    /\ BeforeFails
    /\ last.kind = "up"
    /\ last.fault.at = 2
    /\ Len(UpNames) = 3
    /\ StoredVersion(last.pre) = Empty
    /\ StoredVersion(db) = V1
    /\ last.err.version = V2

Calls(kind, name) ==
    Cardinality({i \in 1..Len(last.events) :
                    last.events[i].e = kind /\ last.events[i].name = name})

\* The event before (after) the i-th one is of the given kind and for the
\* same script.
Preceded(i, kind) ==
    /\ i > 1
    /\ last.events[i - 1].e = kind
    /\ kind # "BeginTx" => last.events[i - 1].name = last.events[i].name

Followed(i, kinds) ==
    /\ i < Len(last.events)
    /\ last.events[i + 1].e \in kinds

(* C13: a configured before callback and a configured after callback are   *)
(* each called exactly once for every script that is applied and are not   *)
(* called for a script that is skipped; a callback that is not configured  *)
(* is not called.  In the transaction of a script the before callback is   *)
(* the first call after the begin and before the version update and the    *)
(* statements; the after callback comes right after the statements of the  *)
(* script and is followed by the commit (by the rollback when it fails).   *)
C13_CallbacksOncePerScript ==
    Migrating =>
        /\ \A j \in 1..Len(last.applied) :
              /\ Calls("before", last.applied[j].name) = IF m.before THEN 1 ELSE 0
              /\ Calls("after", last.applied[j].name) = IF m.after THEN 1 ELSE 0
        /\ \A i \in 1..Len(last.events) :
              LET ev == last.events[i]
              IN  /\ ev.e \in {"before", "after"} =>
                        \E j \in 1..Len(FilesRead) : FilesRead[j] = ev.name
                  /\ ev.e = "before" =>
                        /\ m.before
                        /\ Preceded(i, "BeginTx")
                        /\ Followed(i, {"update", "Rollback"})
                  /\ ev.e = "update" =>
                        Preceded(i, IF m.before THEN "before" ELSE "BeginTx")
                  /\ ev.e = "exec" => Preceded(i, "update")
                  /\ ev.e = "after" =>
                        /\ m.after
                        /\ Preceded(i, "exec")
                        /\ Followed(i, {"Commit", "Rollback"})
                  /\ (ev.e = "Commit" /\ m.after) =>
                        last.events[i - 1].e \in {"after", "create", "insert"}

\* MigrateUp from version 1 over versions 1, 2, 3 with both callbacks: the
\* script of version 1 is skipped, those of 2 and 3 are applied.
C13_Witness ==
    /\ last.kind = "up"
    /\ m.before /\ m.after
    /\ StoredVersion(last.pre) = V1
    /\ AppliedNames = <<UpName(V2), UpName(V3)>>
    /\ Len(EventsOf("before")) = 2
    /\ Len(EventsOf("after")) = 2
    /\ Calls("before", UpName(V1)) = 0

----------------------------------------------------------------------------
(* The versions given to the callbacks *)

\* The operation walks the up scripts.
GoesUp ==
    \/ last.kind = "up"
    \/ /\ last.kind = "to"
       /\ last.version # Empty
       /\ Greater(last.version, StoredVersion(last.pre))

\* The version in the name of a script that the operation applies.
OwnVersion(name) == IF GoesUp THEN UpVersionOf(name) ELSE DownVersionOf(name)

\* The version that the apply of a script records: its own in the up
\* direction, the version of the down script listed before it (the empty
\* version for the first one) in the down direction.
RecordedVersion(name) ==
    IF GoesUp THEN UpVersionOf(name)
    ELSE LET i == CHOOSE j \in 1..Len(DownNames) : DownNames[j] = name
         IN  IF i = 1 THEN Empty ELSE DownVersionOf(DownNames[i - 1])

CallbackEvents ==
    SelectSeq(last.events, LAMBDA ev : ev.e \in {"before", "after"})

(* C14 (as claimed): in the up direction and in the down direction, the    *)
(* version given to the before and the after callback is the version in    *)
(* the file name of the script that is applied.                            *)
C14_CallbackGetsOwnVersion ==
    Migrating =>
        \A i \in 1..Len(CallbackEvents) :
            CallbackEvents[i].version = OwnVersion(CallbackEvents[i].name)

(* C14 (amended): the version given to the before and the after callback   *)
(* is the version that the apply records in the version table: in the up   *)
(* direction the version in the file name of the script, in the down       *)
(* direction the version of the next lower down script of the listing, and *)
(* the empty version for the lowest one.                                   *)
C14_CallbackGetsRecordedVersion ==
    Migrating =>
        /\ \A i \in 1..Len(CallbackEvents) :
              CallbackEvents[i].version = RecordedVersion(CallbackEvents[i].name)
        /\ \A i \in 1..Len(last.events) :
              (last.events[i].e \in {"before", "after"} /\ Followed(i, {"update"}))
                 => last.events[i + 1].version = last.events[i].version
        /\ GoesUp => \A i \in 1..Len(CallbackEvents) :
              CallbackEvents[i].version = OwnVersion(CallbackEvents[i].name)

\* MigrateDown from version 3 with both callbacks: the callbacks of
\* 3.down.sql are given version 2, those of 1.down.sql the empty version.
C14_Witness ==
    /\ last.kind = "down"
    /\ m.before /\ m.after
    /\ AppliedNames = <<DownName(V3), DownName(V2), DownName(V1)>>
    /\ CallbackEvents[1] = Ev("before", DownName(V3), V2)
    /\ CallbackEvents[6] = Ev("after", DownName(V1), Empty)

----------------------------------------------------------------------------
(* The version table *)

\* The table of the Migrator in database d.
TableOf(d) == d.tables[m.table]

\* The operation's createMigrationsTable did not fail.
TableStepDone == ~Failed(createMigrationsTable(m, last.pre, last.fault).err)

TableStepUnfaulted ==
    last.fault.at >= 1 \/ last.fault.phase \in {"none", "query", "readdir"}

(* C16: on a database without the version table, an operation starts with  *)
(* the creation of the table and the insertion of one row with the empty   *)
(* version, in one committed transaction, before it queries the version,   *)
(* lists the directory or reads a script.  MigrateUp with a provider       *)
(* without up scripts then returns success, and the table holds the one    *)
(* row with the empty version.                                             *)
C16_FirstUseCreatesTable ==
    (Migrating /\ ~TableOf(last.pre).exists /\ TableStepUnfaulted) =>
        /\ Len(last.events) >= 4
        /\ SubSeq(last.events, 1, 4) =
              <<Ev("BeginTx", Empty, Empty), Ev("create", m.table, Empty),
                Ev("insert", m.table, Empty), Ev("Commit", Empty, Empty)>>
        /\ TableOf(db).exists
        /\ Len(TableOf(db).rows) = 1
        /\ last.applied = << >> => TableOf(db).rows = <<Empty>>
        /\ (last.kind = "up" /\ UpNames = << >> /\ Faultless) =>
              /\ ~Failed(last.err)
              /\ last.applied = << >>
              /\ TableOf(db) = [exists |-> TRUE, rows |-> <<Empty>>]
              /\ db.effects = last.pre.effects

\* MigrateUp on a fresh database with a provider without files.
C16_Witness ==
    /\ last.kind = "up"
    /\ last.pre = FreshDB
    /\ fsys = << >>
    /\ Faultless
    /\ ~Failed(last.err)
    /\ TableOf(db) = [exists |-> TRUE, rows |-> <<Empty>>]

----------------------------------------------------------------------------
(* New *)

\* A call of New has returned or panicked; its options.
Constructing == last.kind = "new"

HandlesSet == last.opts.DB /\ last.opts.FS

\* The table name consists of word characters and dots, one at least.
LegalTable(table) ==
    /\ table # << >>
    /\ \A i \in 1..Len(table) :
          table[i] \in Digits \cup Letters \cup {"_", "."}

(* C17: New, given both handles, panics and returns no Migrator when the   *)
(* table name is not empty and does not consist of word characters and     *)
(* dots, as for "+"; it takes a name with a dot, as "schema.mytable", as   *)
(* it is, and takes "migrations" for the empty name.  No Migrator ever     *)
(* has a table name that is not legal.                                     *)
C17_NewChecksTableName ==
    /\ LegalTable(m.table)
    /\ (Constructing /\ HandlesSet) =>
          /\ (last.opts.Table # Empty /\ ~LegalTable(last.opts.Table)) =>
                /\ last.panicked
                /\ last.panic = Panic("illegal table name", last.opts.Table)
                /\ m.table # last.opts.Table
          /\ (last.opts.Table # Empty /\ LegalTable(last.opts.Table)) =>
                /\ ~last.panicked
                /\ m = [before |-> last.opts.Before, after |-> last.opts.After,
                        table |-> last.opts.Table]
          /\ last.opts.Table = Empty =>
                /\ ~last.panicked
                /\ m = [before |-> last.opts.Before, after |-> last.opts.After,
                        table |-> Migrations]

\* New with both handles and the table name "+" has panicked.
C17_Witness ==
    /\ Constructing
    /\ HandlesSet
    /\ last.opts.Table = <<"+">>
    /\ last.panicked
    /\ last.panic.table = <<"+">>

(* C18: New panics with "DB and FS must be set" whenever the database      *)
(* handle or the provider is missing, whatever the table name is, legal or *)
(* not; New does not touch the database.                                   *)
C18_NewRequiresHandles ==
    Constructing =>
        /\ db = last.pre
        /\ last.events = << >>
        /\ ~HandlesSet =>
              /\ last.panicked
              /\ last.panic = Panic("DB and FS must be set", Empty)

\* New without the database handle and with the table name "+".
C18_Witness ==
    /\ Constructing
    /\ ~last.opts.DB
    /\ last.opts.FS
    /\ last.opts.Table = <<"+">>
    /\ last.panic.msg = "DB and FS must be set"

----------------------------------------------------------------------------
(* The table name *)

\* The version tables of the database other than the Migrator's.
OtherTables == TableNames \ {m.table}

(* C19: a Migrator reads and writes the version in the table of its name   *)
(* only, also when that is not the default name: an operation starts from  *)
(* the version in that table, leaves there the version of its last         *)
(* committed apply, creates that table and no other, and leaves every      *)
(* other version table as it was.                                          *)
C19_OnlyOwnTable ==
    Migrating =>
        /\ \A t \in OtherTables : db.tables[t] = last.pre.tables[t]
        /\ \A i \in 1..Len(last.events) :
              last.events[i].e \in {"create", "insert"}
                 => last.events[i].name = m.table
        /\ TableStepDone =>
              /\ TableOf(db).exists
              /\ TableOf(db).rows = <<CommittedVersion>>
        /\ (last.kind = "up" /\ ~Failed(last.err)) =>
              AppliedNames = UpTodo(StoredVersion(last.pre))

\* MigrateUp of a Migrator with the table schema.mytable, on a database
\* where the table migrations holds version 1: it applies all three scripts
\* and leaves version 3 in its table and version 1 in the other.
C19_Witness ==
    /\ last.kind = "up"
    /\ m.table = SchemaMytable
    /\ last.pre.tables[Migrations].rows = <<V1>>
    /\ ~last.pre.tables[SchemaMytable].exists
    /\ Len(last.applied) = 3
    /\ db.tables[SchemaMytable].rows = <<V3>>
    /\ db.tables[Migrations].rows = <<V1>>

----------------------------------------------------------------------------
(* The rollback that fails *)

\* What the operation of last gives under fault f.
Rerun(f) ==
    CASE last.kind = "up" -> MigrateUp(m, last.pre, fsys, f)
      [] last.kind = "down" -> MigrateDown(m, last.pre, fsys, f)
      [] last.kind = "to" -> MigrateTo(m, last.pre, fsys, f, last.version)

\* The operation rolled a transaction back and tx.Rollback failed.
RollbackFails ==
    /\ Migrating
    /\ last.fault.rollback
    /\ EventsOf("Rollback") # << >>

\* The chain of messages without message msg.
Without(chain, msg) == SelectSeq(chain, LAMBDA x : x # msg)

(* C20: when the rollback fails after a failure in the transaction, the    *)
(* error returned has the message of the failed rollback and, wrapped in   *)
(* it, the error that made the transaction fail: it is the error that the  *)
(* operation returns when the rollback succeeds, with the message of the   *)
(* rollback put in front of the error of the transaction.                  *)
C20_RollbackErrorKeepsOriginal ==
    RollbackFails =>
        \A plain \in {Rerun([last.fault EXCEPT !.rollback = FALSE]).err} :
            /\ Failed(plain)
            /\ HasMsg(last.err, RollbackFailed)
            /\ ~HasMsg(plain, RollbackFailed)
            /\ Without(last.err.msg, RollbackFailed) = plain.msg
            /\ Len(last.err.msg) = Len(plain.msg) + 1
            /\ last.err.msg[Len(last.err.msg)] = plain.msg[Len(plain.msg)]
            /\ last.err.version = plain.version
            /\ last.err.name = plain.name

\* MigrateUp whose first script fails, with a rollback that fails.
C20_Witness ==
    /\ RollbackFails
    /\ last.kind = "up"
    /\ last.fault.at = 1
    /\ last.fault.phase = "exec"
    /\ last.err.msg = <<"error migrating up", RollbackFailed,
                        "error running migration">>
    /\ last.err.name = UpName(V1)

----------------------------------------------------------------------------
(* The panic in a transaction *)

\* A step of the callback of an apply of the operation panicked: the
\* operation came to the apply that the fault is put in, and to the step.
PanicRaised ==
    /\ Migrating
    /\ last.fault.panic
    /\ Len(EventsOf("BeginTx")) > last.fault.at
    /\ last.fault.phase = "before" => m.before
    /\ last.fault.phase = "after" => m.after

(* C21: a panic in the before callback, in the after callback or in the    *)
(* execution of a statement of an apply makes the transaction roll back    *)
(* and comes back to the caller of Up, Down and To as an error; it does    *)
(* not go on as a panic, no transaction is left open (each one begun is    *)
(* committed or rolled back), and the database is left with the version    *)
(* and the effects of the applies committed before.                        *)
C21_PanicBecomesError ==
    PanicRaised =>
        /\ ~last.panicked
        /\ Failed(last.err)
        /\ last.err.msg[Len(last.err.msg)] = "panic: runtime fault"
        /\ last.events[Len(last.events)].e = "Rollback"
        /\ Len(EventsOf("Commit")) + Len(EventsOf("Rollback"))
              = Len(EventsOf("BeginTx"))
        /\ Len(FilesRead) = Len(last.applied) + 1
        /\ StoredVersion(db) = CommittedVersion
        /\ db.effects = EffectsAfter(last.pre.effects, last.applied)

\* MigrateUp with an after callback that panics for the second script.
C21_Witness ==
    /\ PanicRaised
    /\ last.kind = "up"
    /\ last.fault.phase = "after"
    /\ last.fault.at = 2
    /\ Len(EventsOf("exec")) = 2
    /\ Len(last.applied) = 1
    /\ last.err.msg = <<"error migrating up", "panic: runtime fault">>

----------------------------------------------------------------------------
(* The errors of the listing and of apply *)

\* The operation called fs.ReadDir and it failed.
ListingFails ==
    /\ Migrating
    /\ last.fault = Fault(0, "readdir")
    /\ EventsOf("ReadDir") # << >>

(* C22 (as claimed): when the listing of the directory fails in Up, Down   *)
(* or To, the operation returns the error and has changed nothing in the   *)
(* database: it created no table, inserted no row and applied no script.   *)
C22_ListingFailureChangesNothing ==
    ListingFails =>
        /\ Failed(last.err)
        /\ last.applied = << >>
        /\ FilesRead = << >>
        /\ EventsOf("create") = << >>
        /\ EventsOf("insert") = << >>
        /\ db = last.pre

\* The error of an apply that the claim speaks of: a step of the apply
\* other than the begin returned an error.
ApplyErrorReturned ==
    /\ Migrating
    /\ ApplyFailed
    /\ Len(FilesRead) = Len(last.applied) + 1
    /\ ~last.fault.panic
    /\ last.fault.phase # "begin"

\* The message of the step of apply that a fault of the phase makes fail.
PhaseMessage(phase) ==
    CASE phase = "readfile" -> "error reading migration file"
      [] phase = "before" -> "error in 'before' callback"
      [] phase = "update" -> "error updating version"
      [] phase = "exec" -> "error running migration"
      [] phase = "after" -> "error in 'after' callback"
      [] phase = "commit" -> "error committing transaction"

(* C23 (as claimed): every error of an apply that Up, Down or To returns,  *)
(* for a failure to read the script, of a callback, of the version update, *)
(* of the statements or of the commit, names the script, the version that  *)
(* the apply was to record and the step that failed.                       *)
C23_ApplyErrorHasContext ==
    ApplyErrorReturned =>
        /\ HasMsg(last.err, PhaseMessage(last.fault.phase))
        /\ last.err.name = FilesRead[Len(FilesRead)]
        /\ last.err.version = RecordedVersion(FilesRead[Len(FilesRead)])

----------------------------------------------------------------------------
(* Resumption, and the versions that are recorded *)

(* C24 (as claimed): after a MigrateUp that failed at a script, a          *)
(* MigrateUp over the same scripts without a fault applies that script and *)
(* the up scripts after it and no other, and succeeds with the greatest    *)
(* up version stored.                                                      *)
C24_UpResumes ==
    (prev.kind = "up" /\ ~prev.ok /\ last.kind = "up" /\ Faultless) =>
        /\ ~Failed(last.err)
        /\ AppliedNames = prev.rest
        /\ StoredVersion(db) = Greatest(UpVersions)

\* The versions that the applies of the operation wrote into the update
\* statement, in their order.
UpdatedVersions ==
    [i \in 1..Len(EventsOf("update")) |-> EventsOf("update")[i].version]

\* Version v is made of the characters [A-Za-z0-9_-].
IsVersion(v) == \A i \in 1..Len(v) : IsVersionChar(v[i])

(* C25 (as claimed): every version that an apply puts into the statement   *)
(* that updates the version is the empty string or is made of characters   *)
(* of the class [A-Za-z0-9_-] only.                                        *)
C25_RecordedVersionsAreValidated ==
    Migrating =>
        \A i \in 1..Len(UpdatedVersions) : IsVersion(UpdatedVersions[i])

----------------------------------------------------------------------------
(* The order of the versions *)

\* The versions the table held in the course of the operation: the one it
\* started from, then the one recorded by each committed apply.
StoredVersions ==
    <<StoredVersion(last.pre)>>
        \o [j \in 1..Len(last.applied) |-> last.applied[j].version]

(* C26 (as claimed): over a listing in ascending file name order, the       *)
(* stored version never decreases from one committed script to the next    *)
(* in MigrateUp and the upward MigrateTo, and never increases in           *)
(* MigrateDown and the downward MigrateTo.                                 *)
C26_VersionMonotone ==
    Migrating =>
        \A j \in 1..(Len(StoredVersions) - 1) :
            IF GoesUp THEN Leq(StoredVersions[j], StoredVersions[j + 1])
            ELSE Leq(StoredVersions[j + 1], StoredVersions[j])

\* The database holds no version table but the one of the Migrator.
SingleTable == \A t \in OtherTables : ~db.tables[t].exists

(* C27 (as claimed): between operations, with scripts that come in pairs,  *)
(* the effect of an up script is in place if and only if its version is    *)
(* at most the stored version.                                             *)
C27_VersionMatchesEffects ==
    (Idle /\ ValidScripts /\ SingleTable) =>
        \A v \in UpVersions : v \in db.effects <=> Leq(v, StoredVersion(db))

\* The place of a down script in the list of the down scripts.
DownIndex(name) == CHOOSE j \in 1..Len(DownNames) : DownNames[j] = name

(* C28: MigrateDown applies down scripts from the end of the listing       *)
(* towards its start, and the apply of a script records the version of the *)
(* down script listed just before it, the empty version for the first      *)
(* script of the list.                                                     *)
C28_DownRecordsNextLower ==
    last.kind = "down" =>
        /\ \A j \in 1..Len(FilesRead) :
              \E i \in 1..Len(DownNames) : DownNames[i] = FilesRead[j]
        /\ \A j \in 1..(Len(FilesRead) - 1) :
              DownIndex(FilesRead[j + 1]) < DownIndex(FilesRead[j])
        /\ \A j \in 1..Len(EventsOf("update")) :
              LET ev == EventsOf("update")[j]
                  i == DownIndex(ev.name)
              IN  /\ ev.name = FilesRead[j]
                  /\ ev.version = IF i = 1 THEN Empty
                                  ELSE DownVersionOf(DownNames[i - 1])
        /\ \A j \in 1..Len(last.applied) :
              /\ last.applied[j].name = FilesRead[j]
              /\ last.applied[j].version = EventsOf("update")[j].version

C28_Witness ==
    /\ last.kind = "down"
    /\ StoredVersion(last.pre) = V3
    /\ last.applied = <<Applied(DownName(V3), V2), Applied(DownName(V2), V1),
                        Applied(DownName(V1), Empty)>>
    /\ StoredVersion(db) = Empty

\* MigrateTo(v) returned success for a version v that is not empty.
ToSucceeded ==
    /\ last.kind = "to"
    /\ last.version # Empty
    /\ ~Failed(last.err)
    /\ ~last.panicked

\* The sequence s from its end to its start.
Reverse(s) == [j \in 1..Len(s) |-> s[Len(s) + 1 - j]]

(* C29 (as claimed): MigrateTo(v) that succeeds from a stored version c    *)
(* below v, with v among the up versions, has applied the up scripts with  *)
(* a version above c and up to v, in ascending order and no other, each    *)
(* recording its own version.                                              *)
C29_ToGoesUpTo ==
    LET c == StoredVersion(last.pre)
        v == last.version
    IN  (ToSucceeded /\ Greater(v, c) /\ v \in UpVersions) =>
            /\ AppliedNames = SelectSeq(UpNames, LAMBDA n :
                   Greater(UpVersionOf(n), c) /\ Leq(UpVersionOf(n), v))
            /\ \A j \in 1..Len(last.applied) :
                  last.applied[j].version = UpVersionOf(last.applied[j].name)
            /\ \A j \in 1..(Len(last.applied) - 1) :
                  Leq(last.applied[j].version, last.applied[j + 1].version)

(* C30 (as claimed): MigrateTo(v) that succeeds from a stored version c    *)
(* above v, with v not empty and among the down versions, has applied the  *)
(* down scripts with a version above v and up to c, in descending order    *)
(* and no other, each recording the version of the next lower down script; *)
(* the down script of v is not applied.                                    *)
C30_ToGoesDownTo ==
    LET c == StoredVersion(last.pre)
        v == last.version
    IN  (ToSucceeded /\ Less(v, c) /\ v \in DownVersions) =>
            /\ AppliedNames = Reverse(SelectSeq(DownNames, LAMBDA n :
                   Greater(DownVersionOf(n), v) /\ Leq(DownVersionOf(n), c)))
            /\ \A j \in 1..Len(last.applied) :
                  /\ last.applied[j].version =
                        RecordedVersion(last.applied[j].name)
                  /\ DownVersionOf(last.applied[j].name) # v

----------------------------------------------------------------------------
(* The entry in front of the first script *)

\* MigrateTo read names[i-1] with i = 0 in its downward loop.
IndexOutOfRange == last.kind = "to" /\ last.panicked

\* The version of MigrateTo is the one of the first down script of the
\* listing and is below the stored version.
TargetIsFirstDown ==
    /\ last.kind = "to"
    /\ last.version # Empty
    /\ Less(last.version, StoredVersion(last.pre))
    /\ DownNames # << >>
    /\ DownVersionOf(DownNames[1]) = last.version

(* C31 (as claimed): the downward loop of MigrateTo never reads the entry   *)
(* in front of the first script, and a MigrateTo that succeeds with the     *)
(* version of the first down script of the listing leaves that version as   *)
(* the stored version.                                                      *)
C31_ToDownStopsAtFirst ==
    /\ ~IndexOutOfRange
    /\ (TargetIsFirstDown /\ ToSucceeded) => StoredVersion(db) = last.version

----------------------------------------------------------------------------
(* The steps of one apply *)

\* The places in the calls of the operation where an apply starts.
ApplyStarts == {i \in 1..Len(last.events) : last.events[i].e = "ReadFile"}

\* The place of the last call of the apply that starts at i.
ApplyEnd(i) ==
    IF \E j \in ApplyStarts : j > i
    THEN (CHOOSE j \in ApplyStarts :
             j > i /\ \A l \in ApplyStarts : l > i => j <= l) - 1
    ELSE Len(last.events)

\* The calls of the apply that starts at i, as their kinds.
ApplySteps(i) == [j \in 1..(ApplyEnd(i) - i + 1) |-> last.events[i + j - 1].e]

\* The steps of an apply that succeeds, for the callbacks of the Migrator.
StepOrder ==
    <<"ReadFile", "BeginTx">>
        \o (IF m.before THEN <<"before">> ELSE << >>)
        \o <<"update", "exec">>
        \o (IF m.after THEN <<"after">> ELSE << >>)
        \o <<"Commit">>

(* C32: the calls of one apply are, in this order, the read of the script,  *)
(* the begin of the transaction, the before callback if there is one, the  *)
(* update of the version, the statements of the script, the after callback *)
(* if there is one, and the commit.  An apply that fails stops at the step  *)
(* that failed, and the operation with it: after a failed read or begin    *)
(* nothing follows, after a failed step inside the transaction the         *)
(* rollback and nothing else.  A rollback comes only in a transaction that *)
(* was begun and not ended.                                                *)
C32_ApplyStepOrder ==
    Migrating =>
        /\ \A i \in ApplyStarts :
              LET steps == ApplySteps(i)
                  n == Len(steps)
              IN  /\ \/ steps = StepOrder
                     \/ /\ n <= Len(StepOrder)
                        /\ steps = <<"ReadFile">>
                             \/ /\ n >= 4
                                /\ steps[n] = "Rollback"
                                /\ SubSeq(steps, 1, n - 1) = SubSeq(StepOrder, 1, n - 1)
                  /\ steps # StepOrder =>
                        /\ ApplyEnd(i) = Len(last.events)
                        /\ Failed(last.err)
                  /\ \A j \in (i + 1)..ApplyEnd(i) :
                        last.events[j].name \in {Empty, last.events[i].name}
        /\ \A i \in 1..Len(last.events) :
              last.events[i].e = "Rollback" =>
                 \E b \in 1..(i - 1) :
                    /\ last.events[b].e = "BeginTx"
                    /\ \A j \in (b + 1)..(i - 1) :
                          last.events[j].e \notin {"BeginTx", "Commit", "Rollback"}

\* MigrateUp with both callbacks whose first apply commits and whose second
\* one fails in the statements of the script.
C32_Witness ==
    /\ last.kind = "up"
    /\ m.before /\ m.after
    /\ last.fault = Fault(2, "exec")
    /\ Cardinality(ApplyStarts) = 2
    /\ \E i \in ApplyStarts : ApplySteps(i) = StepOrder
    /\ \E i \in ApplyStarts :
          ApplySteps(i) = <<"ReadFile", "BeginTx", "before", "update", "exec",
                            "Rollback">>

----------------------------------------------------------------------------
(* A script that cannot be read *)

\* The read of the script of an apply of the operation fails.
ReadFails == Migrating /\ last.fault.phase = "readfile"

(* C33: when the read of a script fails, the apply returns the error of    *)
(* the read, which names the script: no transaction is begun for the       *)
(* script, no callback is called for it, neither the version update nor a   *)
(* statement of it is executed, and the database keeps the version and the  *)
(* effects of the applies committed before.                                 *)
C33_ReadFailureTouchesNothing ==
    ReadFails =>
        LET n == Len(last.events)
            name == last.events[n].name
        IN  /\ Failed(last.err)
            /\ HasMsg(last.err, "error reading migration file")
            /\ last.events[n].e = "ReadFile"
            /\ last.err.name = name
            /\ Len(last.applied) = last.fault.at - 1
            /\ Len(FilesRead) = last.fault.at
            /\ Len(EventsOf("BeginTx")) = 1 + Len(last.applied)
            /\ EventsOf("Rollback") = << >>
            /\ \A kind \in {"before", "update", "exec", "after"} :
                  Calls(kind, name) = 0
            /\ StoredVersion(db) = CommittedVersion
            /\ db.effects = EffectsAfter(last.pre.effects, last.applied)
            /\ \A t \in OtherTables : db.tables[t] = last.pre.tables[t]

\* MigrateUp over versions 1, 2, 3 that cannot read the second script.
C33_Witness ==
    /\ last.kind = "up"
    /\ last.fault = Fault(2, "readfile")
    /\ last.applied = <<Applied(UpName(V1), V1)>>
    /\ last.err.name = UpName(V2)
    /\ StoredVersion(db) = V1
    /\ db.effects = {V1}

----------------------------------------------------------------------------
(* The table that is there already *)

\* The operation starts on a database whose version table has its row, and
\* no step of its table transaction fails.
EnsuresAgain ==
    /\ Migrating
    /\ HadVersion
    /\ ~(last.fault.at = 0
           /\ last.fault.phase \in {"begin", "create", "exists", "commit"})

(* C34: on a database where the version table exists and holds a version,  *)
(* the table step of Up, Down and To returns no error, inserts no row and  *)
(* leaves the database as it is; the operation goes on from that version    *)
(* and not from the empty one.                                             *)
C34_TableStepIdempotent ==
    EnsuresAgain =>
        LET t == createMigrationsTable(m, last.pre, last.fault)
        IN  /\ ~Failed(t.err)
            /\ t.db = last.pre
            /\ t.events = <<Ev("BeginTx", Empty, Empty), Ev("create", m.table, Empty),
                            Ev("Commit", Empty, Empty)>>
            /\ SubSeq(last.events, 1, 3) = t.events
            /\ EventsOf("insert") = << >>
            /\ Len(TableOf(db).rows) = 1
            /\ StoredVersion(db) = CommittedVersion
            /\ last.fault.phase # "query" =>
                  getCurrentVersion(m, t.db, last.fault).version
                      = StoredVersion(last.pre)

\* MigrateUp from version 2 over versions 1, 2, 3: it applies the script of
\* version 3 only.
C34_Witness ==
    /\ last.kind = "up"
    /\ Faultless
    /\ HadVersion
    /\ StoredVersion(last.pre) = V2
    /\ last.applied = <<Applied(UpName(V3), V3)>>
    /\ EventsOf("insert") = << >>

----------------------------------------------------------------------------
(* The names of the scripts *)

\* The name is one or more characters of [A-Za-z0-9_-] and then .up.sql,
\* with dots where the dots are.
LiteralUpName(name) ==
    LET k == Len(name) - 7
    IN  /\ k >= 1
        /\ \A i \in 1..k : IsVersionChar(name[i])
        /\ Slice(name, k + 1, k + 7) = DotUpSql

\* The name starts with one or more characters of [A-Za-z0-9_-] and then
\* .down.sql, with dots where the dots are.
LiteralDownName(name) ==
    \E k \in 1..(Len(name) - 9) :
        /\ \A i \in 1..k : IsVersionChar(name[i])
        /\ Slice(name, k + 1, k + 9) = DotDownSql

(* C36 (as claimed): a file of the listing is taken for an up script        *)
(* exactly when its whole name is characters of [A-Za-z0-9_-] followed by   *)
(* .up.sql and for a down script exactly when its name starts with such     *)
(* characters followed by .down.sql, the dots being dots; an operation      *)
(* reads no other file.                                                     *)
C36_DotsAreLiteral ==
    Migrating =>
        /\ \A i \in 1..Len(fsys) :
              /\ MatchString(upMatcher, fsys[i]) <=> LiteralUpName(fsys[i])
              /\ MatchString(downMatcher, fsys[i]) <=> LiteralDownName(fsys[i])
        /\ \A j \in 1..Len(FilesRead) :
              IF GoesUp THEN LiteralUpName(FilesRead[j])
              ELSE LiteralDownName(FilesRead[j])

----------------------------------------------------------------------------
(* Files that are no scripts of the direction *)

\* The pattern of the direction in which the operation walks.
ActiveMatcher == IF GoesUp THEN upMatcher ELSE downMatcher

\* The listing without the files whose names the pattern of the direction
\* does not match.
MatchingFiles == SelectSeq(fsys, LAMBDA n : MatchString(ActiveMatcher, n))

\* The operation of last, run from the same database under the same fault
\* over the listing dir.
OperationOver(dir) ==
    CASE last.kind = "up" -> MigrateUp(m, last.pre, dir, last.fault)
      [] last.kind = "down" -> MigrateDown(m, last.pre, dir, last.fault)
      [] last.kind = "to" ->
            MigrateTo(m, last.pre, dir, last.fault, last.version)

(* C37: the files of the listing whose names the pattern of the direction   *)
(* does not match are not read, and the operation does what it does over    *)
(* the listing without them: it returns the same error or success, applies  *)
(* the same scripts, makes the same calls and leaves the same database.     *)
C37_OtherFilesIgnored ==
    Migrating =>
        /\ \A j \in 1..Len(FilesRead) :
              \E i \in 1..Len(MatchingFiles) : MatchingFiles[i] = FilesRead[j]
        /\ With(OperationOver(MatchingFiles), LAMBDA out :
              /\ out.err = last.err
              /\ out.applied = last.applied
              /\ out.events = last.events
              /\ out.db = db
              /\ out.panicked = last.panicked)

\* MigrateUp over a listing with down scripts, a copy of a down script and a
\* file a.sql: the two up scripts are applied.
C37_Witness ==
    /\ last.kind = "up"
    /\ ~Failed(last.err)
    /\ \E i \in 1..Len(fsys) : fsys[i] = <<"a", ".", "s", "q", "l">>
    /\ Len(MatchingFiles) = 2
    /\ AppliedNames = MatchingFiles
    /\ Len(fsys) = 5

----------------------------------------------------------------------------
(* The end of a transaction *)

\* The calls that end a transaction.
TxEnds == {"Commit", "Rollback"}

\* The place of the call that ends the transaction begun at place b: the
\* first commit or rollback after b, 0 when there is none.
TxEndOf(b) ==
    LET ends == {e \in (b + 1)..Len(last.events) : last.events[e].e \in TxEnds}
    IN  IF ends = {} THEN 0
        ELSE CHOOSE e \in ends : \A o \in ends : e <= o

\* The calls made inside the transaction begun at place b and ended at e.
TxCalls(b, e) == [j \in 1..(e - b - 1) |-> last.events[b + j].e]

\* The calls of a callback of inTransaction that returns no error: the one
\* of createMigrationsTable, with and without the insert, and the one of
\* apply.
CallbackDone ==
    {<<"create">>, <<"create", "insert">>,
     SubSeq(StepOrder, 3, Len(StepOrder) - 1)}

(* C38: every transaction that inTransaction begins is ended once, before   *)
(* the next one begins and before the operation returns: by the commit     *)
(* when the callback returned no error, by the rollback when it returned   *)
(* an error or panicked, and never by both.  A rollback ends the operation, *)
(* which returns an error.  When the begin fails, no call of the callback  *)
(* is made.                                                                *)
C38_TransactionEndsOnce ==
    Migrating =>
        /\ \A b \in 1..Len(last.events) :
              last.events[b].e = "BeginTx" =>
                 LET e == TxEndOf(b)
                 IN  /\ e > b
                     /\ \A j \in (b + 1)..(e - 1) : last.events[j].e # "BeginTx"
                     /\ e < Len(last.events) => last.events[e + 1].e \notin TxEnds
                     /\ last.events[e].e = "Commit" => TxCalls(b, e) \in CallbackDone
                     /\ last.events[e].e = "Rollback" =>
                           /\ e = Len(last.events)
                           /\ Failed(last.err)
                           /\ last.fault.phase \in RollbackPhases
        /\ Len(EventsOf("BeginTx"))
              = Len(EventsOf("Commit")) + Len(EventsOf("Rollback"))
        /\ last.fault.phase = "begin" =>
              /\ Failed(last.err)
              /\ HasMsg(last.err, "error beginning transaction")
              /\ IF last.fault.at = 0 THEN last.events = << >>
                 ELSE /\ last.events[Len(last.events)].e = "ReadFile"
                      /\ Len(EventsOf("BeginTx")) = last.fault.at

\* MigrateDown in which a statement of the second script panics: the table
\* transaction and the first apply are committed, the second apply is rolled
\* back.
C38_Witness ==
    /\ last.kind = "down"
    /\ last.fault = [Fault(2, "exec") EXCEPT !.panic = TRUE]
    /\ Len(EventsOf("BeginTx")) = 3
    /\ Len(EventsOf("Commit")) = 2
    /\ Len(EventsOf("Rollback")) = 1
    /\ last.events[Len(last.events)].e = "Rollback"

----------------------------------------------------------------------------
(* Calls of MigrateUp at the same time *)

\* The number of calls of MigrateUp that run at the same time.
MaxCallers == 2

Callers == 1..MaxCallers

\* The local variables of a call of MigrateUp that has not done anything
\* yet: pc is its place in the code.
Started ==
    [pc |-> "table", currentVersion |-> Empty, names |-> << >>, i |-> 0,
     applied |-> << >>]

\* One pass of the loop of MigrateUp that compares the version of the script
\* with the version stored in the database at that moment.
UpIterationStoredVersion(mig, d, c) ==
    With(ReplaceAllString(upMatcher, At(c.names, c.i)), LAMBDA thisVersion :
         IF Leq(thisVersion, getCurrentVersion(mig, d, NoFault).version)
         THEN [db |-> d, call |-> [c EXCEPT !.i = @ + 1]]
         ELSE With(apply(mig, d, Len(c.applied) + 1, NoFault, At(c.names, c.i),
                         thisVersion), LAMBDA r :
              [db |-> r.db,
               call |-> [c EXCEPT !.i = @ + 1,
                                  !.applied = Append(@, At(c.names, c.i))]]))

\* One pass of the loop of MigrateUp for the call with the local variables c
\* on database d, which is the database as the other calls left it.
UpIteration(mig, d, c) ==
    With(ReplaceAllString(upMatcher, At(c.names, c.i)), LAMBDA thisVersion :
         IF Leq(thisVersion, c.currentVersion)
         THEN [db |-> d, call |-> [c EXCEPT !.i = @ + 1]]
         ELSE With(apply(mig, d, Len(c.applied) + 1, NoFault, At(c.names, c.i),
                         thisVersion), LAMBDA r :
              [db |-> r.db,
               call |-> [c EXCEPT !.i = @ + 1,
                                  !.applied = Append(@, At(c.names, c.i))]]))

InitConcurrent ==
    /\ fsys \in {ReadDir(dir) : dir \in Dirs}
    /\ m \in {New(opts).migrator : opts \in GoodOptions}
    /\ db = FreshDB
    /\ last = NoOp
    /\ prev = NoPrev
    /\ running = [p \in Callers |-> Started]

\* m.createMigrationsTable(ctx), one transaction.
EnsureTable(p) ==
    /\ running[p].pc = "table"
    /\ \E t \in {createMigrationsTable(m, db, NoFault)} : db' = t.db
    /\ running' = [running EXCEPT ![p].pc = "version"]
    /\ UNCHANGED <<fsys, m, last, prev>>

\* currentVersion, err := m.getCurrentVersion(ctx)
ReadVersion(p) ==
    /\ running[p].pc = "version"
    /\ running' = [running EXCEPT
                      ![p].currentVersion = getCurrentVersion(m, db, NoFault).version,
                      ![p].pc = "names"]
    /\ UNCHANGED <<fsys, m, db, last, prev>>

\* names, err := m.getFilenames(upMatcher)
ListNames(p) ==
    /\ running[p].pc = "names"
    /\ running' = [running EXCEPT
                      ![p].names = getFilenames(fsys, upMatcher, NoFault).names,
                      ![p].pc = "loop"]
    /\ UNCHANGED <<fsys, m, db, last, prev>>

\* One pass of the loop: the script is skipped, or applied in a transaction.
LoopPass(p) ==
    /\ running[p].pc = "loop"
    /\ running[p].i < Len(running[p].names)
    /\ \E out \in {UpIteration(m, db, running[p])} :
          /\ db' = out.db
          /\ running' = [running EXCEPT ![p] = out.call]
    /\ UNCHANGED <<fsys, m, last, prev>>

\* return nil
ReturnUp(p) ==
    /\ running[p].pc = "loop"
    /\ running[p].i >= Len(running[p].names)
    /\ running' = [running EXCEPT ![p].pc = "done"]
    /\ UNCHANGED <<fsys, m, db, last, prev>>

NextConcurrent ==
    \E p \in Callers :
        \/ EnsureTable(p)
        \/ ReadVersion(p)
        \/ ListNames(p)
        \/ LoopPass(p)
        \/ ReturnUp(p)

SpecConcurrent == InitConcurrent /\ [][NextConcurrent]_vars

\* The scripts of the listing that call c has gone past and whose version is
\* above the version that the call read before its loop.
AboveOwnVersion(c) ==
    SelectSeq(SubSeq(c.names, 1, c.i),
              LAMBDA n : Greater(UpVersionOf(n), c.currentVersion))

(* C35: calls of MigrateUp that run at the same time on one database and   *)
(* one table do not look at each other: a call applies every up script     *)
(* with a version above the version that it read itself before its loop,   *)
(* whatever the other calls have committed since.  Calls that read the      *)
(* same version apply the same scripts, each script once for each call.     *)
C35_NoCoordination ==
    \A p \in DOMAIN running :
        running[p].pc \in {"loop", "done"} =>
            /\ running[p].applied = AboveOwnVersion(running[p])
            /\ \A q \in DOMAIN running :
                  (/\ running[q].pc = "done" /\ running[p].pc = "done"
                   /\ running[q].currentVersion = running[p].currentVersion)
                     => running[q].applied = running[p].applied

\* Two calls read the empty version and both have applied the scripts of the
\* versions 1, 2 and 3: each script was committed twice.
C35_Witness ==
    \E p, q \in DOMAIN running :
        /\ p # q
        /\ running[p].pc = "done" /\ running[q].pc = "done"
        /\ running[p].currentVersion = Empty
        /\ running[q].currentVersion = Empty
        /\ running[p].applied = <<UpName(V1), UpName(V2), UpName(V3)>>
        /\ running[q].applied = running[p].applied
        /\ StoredVersion(db) = V3

====
